---- MODULE Spec2Model ----
(***************************************************************************)
(* fastfind: the asynchronous directory walker (scanner.py) and the        *)
(* multi-tier cache (cache.py), modelled as state machines.                *)
(*                                                                         *)
(* ScanSpec  : one AsyncScanner running scan() over a small file system.   *)
(* CacheSpec : one HierarchicalCache (MemoryCache + DiskCache) under get,  *)
(*             set, delete, clear, cleanup and the passage of time.        *)
(* ManagerSpec : the CacheManager singleton over its HierarchicalCache and *)
(*             its FileSystemCache.                                        *)
(* FastSpec  : one FastScanner called several times, next to the manager.  *)
(* StoreSpec : a facade whose store rejects writes, and a persistent tier  *)
(*             that is closed.                                             *)
(***************************************************************************)
EXTENDS Integers, Sequences, FiniteSets, TLC

(***************************************************************************)
(* Bounds of the model.                                                    *)
(***************************************************************************)
\* number of file-system nodes (node 1 is the top directory of the tree)
MaxNodes == 3
\* largest max_concurrent an AsyncScanner is constructed with
MaxPermits == 3
\* the max_depth argument of _scan_generator, scaled down from its default
MaxDepth == 1
\* number of add_ignore_pattern calls before a scan
MaxPatterns == 1
\* MemoryCache.max_size, scaled down from its default
MaxSize == 2
\* MemoryCache.ttl and DiskCache.ttl in clock ticks, scaled down
MemTTL == 1
DiskTTL == 2
\* the clock stops at MaxTime
MaxTime == 3
\* reads per tier: hits + misses never exceeds MaxReads
MaxReads == 2
\* max_age_days of FileSystemCache.cleanup_old_cache in clock ticks, scaled down
MaxAge == 2
\* FastScanner._cache_ttl in clock ticks, scaled down
FastTTL == 1
\* number of scan calls made on one FastScanner
MaxScans == 3

Nodes == 1..MaxNodes

(***************************************************************************)
(* Path names are sequences of one-character strings.                      *)
(***************************************************************************)
Digit == <<"1", "2", "3", "4", "5", "6", "7", "8", "9">>

\* the three kinds of file a tree may hold: name suffix, st_size, and
\* whether os.stat succeeds on it
FileProfiles ==
  << [name |-> <<"a", ".", "t", "x", "t">>, size |-> 1, stat_ok |-> TRUE],
     [name |-> <<"b", ".", "p", "y", "c">>, size |-> 2, stat_ok |-> TRUE],
     [name |-> <<"a", ".", "t", "x", "t">>, size |-> 2, stat_ok |-> FALSE] >>

NoNode == [kind |-> "none", parent |-> 0, readable |-> FALSE, profile |-> 0, target |-> 0]
RootDir == [kind |-> "dir", parent |-> 0, readable |-> TRUE, profile |-> 0, target |-> 0]

\* what node n (n > 1) may be: absent, a directory (listable or not), a
\* file, or a symbolic link that dangles (target 0) or points at node 1
NodeDescs(n) ==
  {NoNode}
  \cup {[kind |-> "dir", parent |-> p, readable |-> r, profile |-> 0, target |-> 0] :
          p \in 1..(n - 1), r \in BOOLEAN}
  \cup {[kind |-> "file", parent |-> p, readable |-> FALSE, profile |-> i, target |-> 0] :
          p \in 1..(n - 1), i \in 1..Len(FileProfiles)}
  \cup {[kind |-> "link", parent |-> p, readable |-> FALSE, profile |-> 0, target |-> t] :
          p \in 1..(n - 1), t \in {0, 1}}

AllDescs == {RootDir} \cup UNION {NodeDescs(n) : n \in Nodes}

\* the trees: every present node hangs under a directory with a smaller id
FileSystems ==
  {f \in [Nodes -> AllDescs] :
     /\ f[1] = RootDir
     /\ \A n \in Nodes \ {1} :
          /\ f[n] \in NodeDescs(n)
          /\ f[n].kind # "none" => f[f[n].parent].kind = "dir"
          /\ f[n].kind # "none" => f[n - 1].kind # "none"}

Name(f, n) ==
  IF f[n].kind = "file" THEN <<Digit[n]>> \o FileProfiles[f[n].profile].name
  ELSE IF f[n].kind = "dir" THEN <<"d", Digit[n]>>
  ELSE <<"l", Digit[n]>>

RECURSIVE PathStr(_, _)
PathStr(f, n) ==
  IF n = 1 THEN <<"/", "r">>
  ELSE PathStr(f, f[n].parent) \o <<"/">> \o Name(f, n)

\* os.listdir: the entries of directory d (ascending node id)
RECURSIVE ListFrom(_, _, _)
ListFrom(f, d, n) ==
  IF n > MaxNodes THEN <<>>
  ELSE (IF f[n].kind # "none" /\ f[n].parent = d THEN <<n>> ELSE <<>>)
       \o ListFrom(f, d, n + 1)
listdir(f, d) == ListFrom(f, d, 1)

\* whether aiofiles.os.listdir(path) succeeds: path 0 is a missing path
ListdirOK(f, d) == d # 0 /\ f[d].kind = "dir" /\ f[d].readable

\* Path.is_dir()
is_dir(f, n) == n # 0 /\ f[n].kind = "dir"

(***************************************************************************)
(* Ignore patterns and filters.                                            *)
(***************************************************************************)
DefaultIgnorePatterns ==
  << <<"*", "*", "/", ".", "g", "i", "t", "/", "*", "*">>,
     <<"*", "*", "/", ".", "s", "v", "n", "/", "*", "*">>,
     <<"*", "*", "/", ".", "h", "g", "/", "*", "*">>,
     <<"*", "*", "/", "_", "_", "p", "y", "c", "a", "c", "h", "e", "_", "_", "/", "*", "*">>,
     <<"*", "*", "/", "*", ".", "p", "y", "c">>,
     <<"*", "*", "/", "*", ".", "p", "y", "o">>,
     <<"*", "*", "/", "*", ".", "p", "y", "d">>,
     <<"*", "*", "/", ".", "D", "S", "_", "S", "t", "o", "r", "e">> >>

\* patterns a caller registers with add_ignore_pattern
CallerPatterns == { <<"*", ".", "t", "x", "t">> }

\* fnmatch.fnmatch for patterns whose only wildcard is "*"
RECURSIVE fnmatch(_, _)
fnmatch(s, p) ==
  IF p = <<>> THEN s = <<>>
  ELSE IF Head(p) = "*"
       THEN fnmatch(s, Tail(p)) \/ (s # <<>> /\ fnmatch(Tail(s), p))
       ELSE s # <<>> /\ Head(s) = Head(p) /\ fnmatch(Tail(s), Tail(p))

\* should_ignore: the loop body names fnmatch, which scanner.py binds only
\* as a local of add_ignore_pattern, so evaluating it raises NameError
should_ignore(patterns, s) ==
  IF patterns = <<>> THEN "False" ELSE "NameError"

\* "sub in s" and "s.endswith(suf)"
Contains(s, sub) ==
  \E i \in 0..(Len(s) - Len(sub)) : SubSeq(s, i + 1, i + Len(sub)) = sub
EndsWith(s, suf) ==
  Len(suf) <= Len(s) /\ SubSeq(s, Len(s) - Len(suf) + 1, Len(s)) = suf

\* None for an optional filter: the empty name / the size -1
NoStr == <<>>
NoSize == -1

\* the four filter tests of scan, in the order of the code
PassesFilters(req, name, size) ==
  /\ ~(req.name_filter # NoStr /\ ~Contains(name, req.name_filter))
  /\ ~(req.ext_filter # NoStr /\ ~EndsWith(name, req.ext_filter))
  /\ ~(req.min_size # NoSize /\ size < req.min_size)
  /\ ~(req.max_size # NoSize /\ size > req.max_size)

Request(nf, ef, lo, hi, cb) ==
  [name_filter |-> nf, ext_filter |-> ef, min_size |-> lo, max_size |-> hi, callback |-> cb]

\* the filter arguments scans are started with
Requests ==
  { Request(nf, ef, NoSize, NoSize, "none") :
      nf \in {NoStr, <<"a">>}, ef \in {NoStr, <<".", "t", "x", "t">>} }
  \cup { Request(NoStr, NoStr, lo, hi, "none") : lo \in {NoSize, 2}, hi \in {NoSize, 1} }
  \cup { Request(NoStr, NoStr, NoSize, NoSize, "raises") }

\* the root_path arguments: 0 is a path that does not exist
RootPaths == {0, 1, 2}

\* Path(root_path).resolve(): follows a link at the root
resolve(f, n) ==
  IF n = 0 \/ f[n].kind = "none" THEN 0
  ELSE IF f[n].kind = "link" THEN f[n].target
  ELSE n

ZeroStats ==
  [files_found |-> 0, dirs_scanned |-> 0, files_skipped |-> 0,
   permission_errors |-> 0, total_bytes |-> 0]

VARIABLES
  fs,               \* the file system under scan
  max_concurrent,   \* AsyncScanner.max_concurrent
  follow_symlinks,  \* AsyncScanner.follow_symlinks
  semaphore,        \* free permits of AsyncScanner.semaphore
  ignore_patterns,  \* AsyncScanner._ignore_patterns
  stats,            \* AsyncScanner.stats
  pc,               \* "idle", "scanning", "done" or "raised"
  request,          \* the arguments of the running scan
  root,             \* the resolved root of the running scan
  stack,            \* the chain of suspended _scan_generator/_listdir frames
  cur,              \* the path just yielded to the loop of scan, or 0
  results,          \* the local list results of scan
  returned,         \* what scan returned: <<list>>, or <<>> if nothing yet
  error             \* the exception scan raised, or "none"

scanVars == <<fs, max_concurrent, follow_symlinks, semaphore, ignore_patterns, stats,
              pc, request, root, stack, cur, results, returned, error>>

VARIABLES
  file_cache,       \* FastScanner._file_cache
  from_cache,       \* whether stats["from_cache"] has been set
  call,             \* the arguments, the cache key and the time of the latest
                    \* FastScanner.scan call, and whether it found its key
                    \* unexpired in _file_cache
  prev,             \* the FastScanner.scan calls before the latest one, with
                    \* how each ended
  listed,           \* whether the latest scan call has listed a directory
  abandoned         \* permits held by the generators of scans that raised

fastVars == <<file_cache, from_cache, call, prev, listed, abandoned>>

VARIABLES
  now,              \* time.time(), in ticks
  memory_cache,     \* HierarchicalCache.memory_cache
  disk_cache,       \* HierarchicalCache.disk_cache
  client,           \* the object the caller holds: a bare "memory" or "disk"
                    \* tier, a "damaged" disk tier whose file loses bytes, or
                    \* the "facade" over both
  last,             \* the most recent cache call and what it returned (or the
                    \* damage done to a row since)
  accessed,         \* the keys stored in memory_cache, least recently accessed
                    \* first (an access is a set or a get that hit)
  set_at            \* for a "facade" client: by key, the time of the most
                    \* recent facade set that no delete or clear followed

cacheVars == <<now, memory_cache, disk_cache, client, last, accessed, set_at>>

VARIABLES
  enabled,          \* CacheManager.enabled
  fs_cache,         \* the state files of CacheManager.fs_cache, by directory
  dir_mtime,        \* st_mtime of the directory /r
  held,             \* for a "toggler" client: the file list last stored while
                    \* the manager was enabled and not cleared since, whether a
                    \* disable() and then an enable() followed it, and whether
                    \* get/set calls were made while disabled
  instance          \* CacheManager._instance: the object every construction
                    \* returns (objects are numbered), None before the first

managerVars == <<enabled, fs_cache, dir_mtime, held, instance>>

vars == <<scanVars, fastVars, cacheVars, managerVars>>

Frame(path, depth) == [path |-> path, depth |-> depth, pc |-> "start", items |-> <<>>]

Top == stack[Len(stack)]
Pop == SubSeq(stack, 1, Len(stack) - 1)
SetTop(fr) == [stack EXCEPT ![Len(stack)] = fr]

(***************************************************************************)
(* cache.py: MemoryCache, DiskCache and HierarchicalCache as functions of  *)
(* the tier's state and the clock.                                         *)
(***************************************************************************)
Keys == {"k1", "k2", "k3"}
\* the cached values are file lists
Values == {<<>>, <<2, 3>>}
\* the path argument of a persistent set, and metadata["total_size"]
\* (NoSize: the call passes no metadata)
CachePaths == {"/r"}
TotalSizes == {NoSize}

\* an optional value: <<>> is None, <<v>> is the value v
None == <<>>
Some(v) == <<v>>

EmptyMap == [x \in {} |-> 0]
Without(f, k) == [x \in DOMAIN f \ {k} |-> f[x]]
With(f, k, e) == [x \in DOMAIN f \cup {k} |-> IF x = k THEN e ELSE f[x]]

\* list.remove(x) when x is in the list, nothing otherwise
RECURSIVE RemoveFirst(_, _)
RemoveFirst(seq, x) ==
  IF seq = <<>> THEN <<>>
  ELSE IF Head(seq) = x THEN Tail(seq)
  ELSE <<Head(seq)>> \o RemoveFirst(Tail(seq), x)

\* an expiry test that already fails an entry whose age equals the TTL
Expired_AtTTL(timestamp, t, ttl) == t - timestamp >= ttl

\* the expiry test of both tiers: time.time() - timestamp > self.ttl
Expired(timestamp, t, ttl) == t - timestamp > ttl

NewMemoryCache == [cache |-> EmptyMap, access_order |-> <<>>, hits |-> 0, misses |-> 0]

\* a get that leaves the recency order alone on a hit
MemoryCache_get_NoReorder(m, k, t) ==
  IF k \in DOMAIN m.cache
  THEN IF Expired(m.cache[k].timestamp, t, MemTTL)
       THEN [m |-> [m EXCEPT !.cache = Without(@, k),
                             !.access_order = RemoveFirst(@, k),
                             !.misses = @ + 1],
             ret |-> None]
       ELSE [m |-> [m EXCEPT !.hits = @ + 1], ret |-> Some(m.cache[k].value)]
  ELSE [m |-> [m EXCEPT !.misses = @ + 1], ret |-> None]

\* a get that does not count the miss of a key that is not stored
MemoryCache_get_UncountedMiss(m, k, t) ==
  IF k \in DOMAIN m.cache
  THEN IF Expired(m.cache[k].timestamp, t, MemTTL)
       THEN [m |-> [m EXCEPT !.cache = Without(@, k),
                             !.access_order = RemoveFirst(@, k),
                             !.misses = @ + 1],
             ret |-> None]
       ELSE [m |-> [m EXCEPT !.access_order = Append(RemoveFirst(@, k), k),
                             !.hits = @ + 1],
             ret |-> Some(m.cache[k].value)]
  ELSE [m |-> m, ret |-> None]

MemoryCache_get(m, k, t) ==
  IF k \in DOMAIN m.cache
  THEN IF Expired(m.cache[k].timestamp, t, MemTTL)
       THEN [m |-> [m EXCEPT !.cache = Without(@, k),
                             !.access_order = RemoveFirst(@, k),
                             !.misses = @ + 1],
             ret |-> None]
       ELSE [m |-> [m EXCEPT !.access_order = Append(RemoveFirst(@, k), k),
                             !.hits = @ + 1],
             ret |-> Some(m.cache[k].value)]
  ELSE [m |-> [m EXCEPT !.misses = @ + 1], ret |-> None]

\* a set that never evicts
MemoryCache_set_NoEvict(m, k, v, t) ==
  [m EXCEPT !.cache = With(@, k, [value |-> v, timestamp |-> t]),
            !.access_order = Append(RemoveFirst(@, k), k)]

MemoryCache_set(m, k, v, t) ==
  LET evict == Cardinality(DOMAIN m.cache) >= MaxSize /\ m.access_order # <<>>
      cache1 == IF evict THEN Without(m.cache, Head(m.access_order)) ELSE m.cache
      order1 == IF evict THEN Tail(m.access_order) ELSE m.access_order
  IN [m EXCEPT !.cache = With(cache1, k, [value |-> v, timestamp |-> t]),
               !.access_order = Append(RemoveFirst(order1, k), k)]

\* a delete that leaves the key in the recency sequence
MemoryCache_delete_KeepsOrder(m, k) == [m EXCEPT !.cache = Without(@, k)]

MemoryCache_delete(m, k) ==
  [m EXCEPT !.cache = Without(@, k), !.access_order = RemoveFirst(@, k)]

MemoryCache_clear(m) == NewMemoryCache

RECURSIVE MemoryDeleteAll(_, _)
MemoryDeleteAll(m, ks) ==
  IF ks = {} THEN m
  ELSE LET k == CHOOSE x \in ks : TRUE
       IN MemoryDeleteAll(MemoryCache_delete(m, k), ks \ {k})

\* a sweep that already removes an entry whose age equals the TTL
MemoryCache_cleanup_expired_AtTTL(m, t) ==
  LET expired_keys == {k \in DOMAIN m.cache : t - m.cache[k].timestamp >= MemTTL}
  IN [m |-> MemoryDeleteAll(m, expired_keys), ret |-> Cardinality(expired_keys)]

MemoryCache_cleanup_expired(m, t) ==
  LET expired_keys == {k \in DOMAIN m.cache : Expired(m.cache[k].timestamp, t, MemTTL)}
  IN [m |-> MemoryDeleteAll(m, expired_keys), ret |-> Cardinality(expired_keys)]

\* pickle.dumps / pickle.loads of a list: a length-prefixed frame
dumps(v) == <<Len(v)>> \o v
loads(blob) ==
  IF blob # <<>> /\ blob[1] = Len(blob) - 1
  THEN [ok |-> TRUE, value |-> Tail(blob)]
  ELSE [ok |-> FALSE, value |-> <<>>]

\* a stored blob that lost its last byte
truncate(blob) == SubSeq(blob, 1, Len(blob) - 1)

\* the row of key k after its blob was truncated in the database file
DiskCache_damage(d, k) == [d EXCEPT !.rows[k].value = truncate(@)]

\* rows are the rows of file_cache as the connection of the tier sees them;
\* open: the connection has not been closed (on a closed connection every
\* statement raises, and every method absorbs that)
NewDiskCache == [rows |-> EmptyMap, hits |-> 0, misses |-> 0, open |-> TRUE]

DiskCache_delete(d, k) == IF d.open THEN [d EXCEPT !.rows = Without(@, k)] ELSE d

\* a get that reports an expired row as a miss and leaves it stored
DiskCache_get_KeepsExpired(d, k, t) ==
  IF ~d.open THEN [d |-> [d EXCEPT !.misses = @ + 1], ret |-> None]
  ELSE
  IF k \in DOMAIN d.rows
  THEN IF Expired(d.rows[k].timestamp, t, DiskTTL)
       THEN [d |-> [d EXCEPT !.misses = @ + 1], ret |-> None]
       ELSE IF loads(d.rows[k].value).ok
            THEN [d |-> [d EXCEPT !.hits = @ + 1], ret |-> Some(loads(d.rows[k].value).value)]
            ELSE [d |-> [DiskCache_delete(d, k) EXCEPT !.misses = @ + 1], ret |-> None]
  ELSE [d |-> [d EXCEPT !.misses = @ + 1], ret |-> None]

\* a get that reports a row whose payload does not deserialize as a miss and
\* leaves it stored
DiskCache_get_KeepsDamaged(d, k, t) ==
  IF ~d.open THEN [d |-> [d EXCEPT !.misses = @ + 1], ret |-> None]
  ELSE
  IF k \in DOMAIN d.rows
  THEN IF Expired(d.rows[k].timestamp, t, DiskTTL)
       THEN [d |-> [DiskCache_delete(d, k) EXCEPT !.misses = @ + 1], ret |-> None]
       ELSE IF loads(d.rows[k].value).ok
            THEN [d |-> [d EXCEPT !.hits = @ + 1], ret |-> Some(loads(d.rows[k].value).value)]
            ELSE [d |-> [d EXCEPT !.misses = @ + 1], ret |-> None]
  ELSE [d |-> [d EXCEPT !.misses = @ + 1], ret |-> None]

DiskCache_get(d, k, t) ==
  IF ~d.open THEN [d |-> [d EXCEPT !.misses = @ + 1], ret |-> None]
  ELSE
  IF k \in DOMAIN d.rows
  THEN IF Expired(d.rows[k].timestamp, t, DiskTTL)
       THEN [d |-> [DiskCache_delete(d, k) EXCEPT !.misses = @ + 1], ret |-> None]
       ELSE IF loads(d.rows[k].value).ok
            THEN [d |-> [d EXCEPT !.hits = @ + 1], ret |-> Some(loads(d.rows[k].value).value)]
            ELSE [d |-> [DiskCache_delete(d, k) EXCEPT !.misses = @ + 1], ret |-> None]
  ELSE [d |-> [d EXCEPT !.misses = @ + 1], ret |-> None]

DiskCache_set(d, k, v, path, total, t) ==
  IF ~d.open THEN d
  ELSE
  [d EXCEPT !.rows = With(@, k, [value |-> dumps(v), timestamp |-> t, path |-> path,
                                 file_count |-> Len(v),
                                 total_size |-> IF total = NoSize THEN 0 ELSE total])]

\* the stages of a set at which the store can reject the write
Stages == {"execute", "commit"}

\* a set the store rejects: when the INSERT statement raises nothing is
\* written; when commit raises the INSERT has been executed and stays in the
\* open transaction of the connection, where the statements of the tier see
\* it and the next commit makes it durable
DiskCache_set_rejected(d, k, v, path, total, t, stage) ==
  IF stage = "execute" THEN d ELSE DiskCache_set(d, k, v, path, total, t)

DiskCache_clear(d) == IF d.open THEN NewDiskCache ELSE d

DiskCache_cleanup_expired(d, t) ==
  IF ~d.open THEN [d |-> d, ret |-> 0]
  ELSE
  LET deleted == {k \in DOMAIN d.rows : d.rows[k].timestamp < t - DiskTTL}
  IN [d |-> [d EXCEPT !.rows = [x \in DOMAIN d.rows \ deleted |-> d.rows[x]]],
      ret |-> Cardinality(deleted)]

\* a close that releases the connection without the sweep
DiskCache_close_NoSweep(d, t) == [d EXCEPT !.open = FALSE]

\* close: the sweep, then conn.close()
DiskCache_close(d, t) == [DiskCache_cleanup_expired(d, t).d EXCEPT !.open = FALSE]

\* a facade get that returns a persistent hit without storing it in memory
HierarchicalCache_get_NoPromote(m, d, k, t) ==
  LET r1 == MemoryCache_get(m, k, t)
      r2 == DiskCache_get(d, k, t)
  IN IF r1.ret # None THEN [m |-> r1.m, d |-> d, ret |-> r1.ret]
     ELSE [m |-> r1.m, d |-> r2.d, ret |-> r2.ret]

HierarchicalCache_get(m, d, k, t) ==
  LET r1 == MemoryCache_get(m, k, t)
      r2 == DiskCache_get(d, k, t)
  IN IF r1.ret # None THEN [m |-> r1.m, d |-> d, ret |-> r1.ret]
     ELSE IF r2.ret # None
          THEN [m |-> MemoryCache_set(r1.m, k, r2.ret[1], t), d |-> r2.d, ret |-> r2.ret]
          ELSE [m |-> r1.m, d |-> r2.d, ret |-> None]

\* a facade set that writes the persistent tier only
HierarchicalCache_set_DiskOnly(m, d, k, v, path, total, t) ==
  [m |-> m, d |-> DiskCache_set(d, k, v, path, total, t)]

HierarchicalCache_set(m, d, k, v, path, total, t) ==
  [m |-> MemoryCache_set(m, k, v, t), d |-> DiskCache_set(d, k, v, path, total, t)]

\* a facade set whose persistent write the store rejects
HierarchicalCache_set_rejected(m, d, k, v, path, total, t, stage) ==
  [m |-> MemoryCache_set(m, k, v, t),
   d |-> DiskCache_set_rejected(d, k, v, path, total, t, stage)]

HierarchicalCache_delete(m, d, k) ==
  [m |-> MemoryCache_delete(m, k), d |-> DiskCache_delete(d, k)]

\* a clear that empties the memory tier only
HierarchicalCache_clear_MemoryOnly(m, d) == [m |-> MemoryCache_clear(m), d |-> d]

HierarchicalCache_clear(m, d) == [m |-> MemoryCache_clear(m), d |-> DiskCache_clear(d)]

HierarchicalCache_cleanup(m, d, t) ==
  LET memory_cleaned == MemoryCache_cleanup_expired(m, t)
      disk_cleaned == DiskCache_cleanup_expired(d, t)
  IN [m |-> memory_cleaned.m, d |-> disk_cleaned.d,
      memory_cleaned |-> memory_cleaned.ret, disk_cleaned |-> disk_cleaned.ret,
      total_cleaned |-> memory_cleaned.ret + disk_cleaned.ret]

(***************************************************************************)
(* cache.py: FileSystemCache and CacheManager.                             *)
(***************************************************************************)
\* a path is the sequence of its characters; os.getcwd() is "/"
Cwd == <<"/">>

\* path.split("/")
RECURSIVE Split(_)
Split(p) ==
  IF p = <<>> THEN << <<>> >>
  ELSE LET r == Split(Tail(p))
       IN IF Head(p) = "/" THEN << <<>> >> \o r
          ELSE << <<Head(p)>> \o Head(r) >> \o Tail(r)

\* os.path.normpath of an absolute path, by components: empty and "."
\* components are dropped, ".." drops the component before it
RECURSIVE Collapse(_, _)
Collapse(comps, acc) ==
  IF comps = <<>> THEN acc
  ELSE LET c == Head(comps)
       IN IF c = <<>> \/ c = <<".">> THEN Collapse(Tail(comps), acc)
          ELSE IF c = <<".", ".">>
               THEN Collapse(Tail(comps),
                             IF acc = <<>> THEN acc ELSE SubSeq(acc, 1, Len(acc) - 1))
               ELSE Collapse(Tail(comps), Append(acc, c))

RECURSIVE Join(_)
Join(comps) == IF comps = <<>> THEN <<>> ELSE <<"/">> \o Head(comps) \o Join(Tail(comps))

\* os.path.abspath
abspath(p) ==
  LET full == IF p # <<>> /\ Head(p) = "/" THEN p ELSE Cwd \o p
      comps == Collapse(Split(full), <<>>)
  IN IF comps = <<>> THEN <<"/">> ELSE Join(comps)

\* a filters dict is the sequence of its items in insertion order; an item is
\* [k |-> name, v |-> None or Some(string)]
Item(k, v) == [k |-> k, v |-> v]

\* {k: v for k, v in filters.items() if v is not None}
RECURSIVE NonNullItems(_)
NonNullItems(filters) ==
  IF filters = <<>> THEN <<>>
  ELSE (IF Head(filters).v # None THEN <<Head(filters)>> ELSE <<>>)
       \o NonNullItems(Tail(filters))

\* json.dumps(d, sort_keys=True) of a dict of strings: the text depends on
\* the mapping only, not on the insertion order
dumps_sorted(items) ==
  [k \in {items[i].k : i \in DOMAIN items} |->
     (items[CHOOSE i \in DOMAIN items : items[i].k = k]).v]

\* a key derivation that keeps the fields whose value is None
make_cache_key_KeepsNulls(path, filters) ==
  [path |-> abspath(path), filters |-> dumps_sorted(filters), cache_version |-> "2.0"]

\* CacheManager._make_cache_key; sha256 is taken to be free of collisions, so
\* the key is the text it digests
make_cache_key(path, filters) ==
  [path |-> abspath(path), filters |-> dumps_sorted(NonNullItems(filters)),
   cache_version |-> "2.0"]

\* the queries the manager is called with: path and filters as the caller
\* spells them, with the directory the path denotes (dir) and the non-null
\* fields (fields) stated independently of the key derivation
Txt == <<".", "t", "x", "t">>
Query(path, filters, dir, fields) ==
  [path |-> path, filters |-> filters, dir |-> dir, fields |-> fields]
Queries ==
  { Query(<<"/", "r">>, <<Item("ext", Some(Txt))>>, "r", {<<"ext", Txt>>}),
    Query(<<"r">>, <<Item("name", None), Item("ext", Some(Txt))>>, "r", {<<"ext", Txt>>}),
    Query(<<"/", "r", "/">>, <<Item("ext", Some(Txt)), Item("name", Some(<<"a">>))>>,
          "r", {<<"ext", Txt>>, <<"name", <<"a">>>>}),
    Query(<<"/", "r">>, <<Item("name", Some(<<"a">>)), Item("ext", Some(Txt))>>,
          "r", {<<"ext", Txt>>, <<"name", <<"a">>>>}),
    Query(<<"/", "s">>, <<Item("ext", Some(Txt))>>, "s", {<<"ext", Txt>>}) }

\* set_file_list without metadata: the st_size of the listed files that can
\* be stat'ed, summed
RECURSIVE TotalSize(_, _)
TotalSize(f, file_list) ==
  IF file_list = <<>> THEN 0
  ELSE (IF Head(file_list) \in DOMAIN f /\ f[Head(file_list)].kind = "file"
           /\ FileProfiles[f[Head(file_list)].profile].stat_ok
        THEN FileProfiles[f[Head(file_list)].profile].size ELSE 0)
       + TotalSize(f, Tail(file_list))

\* a get_file_list that does not look at the enabled flag
CacheManager_get_file_list_IgnoresFlag(on, m, d, path, filters, t) ==
  HierarchicalCache_get(m, d, make_cache_key(path, filters), t)

CacheManager_get_file_list(on, m, d, path, filters, t) ==
  IF ~on THEN [m |-> m, d |-> d, ret |-> None]
  ELSE HierarchicalCache_get(m, d, make_cache_key(path, filters), t)

\* a set_file_list that stores the list also while the manager is disabled
CacheManager_set_file_list_IgnoresFlag(on, m, d, path, filters, file_list, f, t) ==
  HierarchicalCache_set(m, d, make_cache_key(path, filters), file_list, path,
                        TotalSize(f, file_list), t)

CacheManager_set_file_list(on, m, d, path, filters, file_list, f, t) ==
  IF ~on THEN [m |-> m, d |-> d]
  ELSE HierarchicalCache_set(m, d, make_cache_key(path, filters), file_list, path,
                             TotalSize(f, file_list), t)

\* the directories get/set_directory_stats are called with: /r exists, /m
\* does not; and the stats dicts stored
DirPaths == { <<"/", "r">>, <<"/", "m">> }
DirExists(path) == abspath(path) = <<"/", "r">>
DirStats == {1, 2}

\* a lookup that returns the stored state whatever the directory's
\* modification time
FileSystemCache_get_directory_state_IgnoresMtime(fc, path, mtime) ==
  IF ~DirExists(path) THEN None
  ELSE IF abspath(path) \in DOMAIN fc THEN Some(fc[abspath(path)]) ELSE None

FileSystemCache_get_directory_state(fc, path, mtime) ==
  IF ~DirExists(path) THEN None
  ELSE IF abspath(path) \in DOMAIN fc /\ mtime <= fc[abspath(path)].mtime
       THEN Some(fc[abspath(path)])
       ELSE None

FileSystemCache_set_directory_state(fc, path, state, mtime, t) ==
  IF ~DirExists(path) THEN fc
  ELSE With(fc, abspath(path), [stats |-> state, mtime |-> mtime, cached_at |-> t])

FileSystemCache_cleanup_old_cache(fc, t) ==
  LET old == {x \in DOMAIN fc : fc[x].cached_at < t - MaxAge}
  IN [fc |-> [x \in DOMAIN fc \ old |-> fc[x]], ret |-> Cardinality(old)]

CacheManager_get_directory_stats(on, fc, path, mtime) ==
  IF ~on THEN None ELSE FileSystemCache_get_directory_state(fc, path, mtime)

CacheManager_set_directory_stats(on, fc, path, state, mtime, t) ==
  IF ~on THEN fc ELSE FileSystemCache_set_directory_state(fc, path, state, mtime, t)

CacheManager_cleanup(m, d, fc, t) ==
  LET hierarchical_cleanup == HierarchicalCache_cleanup(m, d, t)
      fs_cleanup == FileSystemCache_cleanup_old_cache(fc, t)
  IN [m |-> hierarchical_cleanup.m, d |-> hierarchical_cleanup.d, fc |-> fs_cleanup.fc,
      memory_cleaned |-> hierarchical_cleanup.memory_cleaned,
      disk_cleaned |-> hierarchical_cleanup.disk_cleaned,
      fs_cleaned |-> fs_cleanup.ret,
      total_cleaned |-> hierarchical_cleanup.total_cleaned + fs_cleanup.ret]

\* nothing stored yet, or everything cleared
NoHeld == [entry |-> None, phase |-> "stored", bypassed |-> FALSE]

\* a construction that runs _init every time: a new HierarchicalCache (an empty
\* memory tier, a new connection to the database file) and the flag set
CacheManager_new_Reinitialises(inst, on, m, d, fc) ==
  [instance |-> inst, enabled |-> TRUE, m |-> NewMemoryCache,
   d |-> [d EXCEPT !.hits = 0, !.misses = 0], fc |-> fc]

\* CacheManager.__new__: the first construction creates the object and runs
\* _init, every later one returns the object as it is
CacheManager_new(inst, on, m, d, fc) ==
  IF inst = None
  THEN [instance |-> Some(1), enabled |-> TRUE, m |-> NewMemoryCache,
        d |-> [d EXCEPT !.hits = 0, !.misses = 0], fc |-> fc]
  ELSE [instance |-> inst, enabled |-> on, m |-> m, d |-> d, fc |-> fc]

\* CacheManager._init, run by the module's cache_manager = CacheManager()
ManagerNew ==
  /\ instance = Some(1)
  /\ enabled = TRUE
  /\ fs_cache = EmptyMap
  /\ dir_mtime = 0
  /\ held = NoHeld

\* the record kept of a cache call: the tier it went to, its arguments, its
\* result, the clock, for a get, the set it directly follows if that
\* set was of the same key on the same tier (prior = <<value, time>>), and
\* whether it directly follows damage to the row of its key
Call(op, tier, key, value, ret, prior) ==
  [op |-> op, tier |-> tier, key |-> key, value |-> value, ret |-> ret,
   at |-> now, prior |-> prior, damaged |-> (last.op = "damage" /\ last.key = key)]

PriorSet(tier, key) ==
  IF last.op = "set" /\ last.tier = tier /\ last.key = key
  THEN <<last.value, last.at>> ELSE <<>>

\* the recency order after a call: the key goes to the most recent end if the
\* call accessed it, and only the keys still stored are kept
RECURSIVE Restrict(_, _)
Restrict(seq, keep) ==
  IF seq = <<>> THEN <<>>
  ELSE IF Head(seq) \in keep THEN <<Head(seq)>> \o Restrict(Tail(seq), keep)
  ELSE Restrict(Tail(seq), keep)

Recency(touched, k, m) ==
  Restrict(IF touched THEN Append(RemoveFirst(accessed, k), k) ELSE accessed, DOMAIN m.cache)

\* HierarchicalCache.__init__ on an empty store
CacheNew ==
  /\ now = 0
  /\ memory_cache = NewMemoryCache
  /\ disk_cache = NewDiskCache
  /\ last = [op |-> "new", tier |-> "", key |-> "", value |-> <<>>, ret |-> None,
             at |-> 0, prior |-> <<>>, damaged |-> FALSE]
  /\ accessed = <<>>
  /\ set_at = EmptyMap

\* FastScanner.__init__, after AsyncScanner.__init__
NoCall == [root_path |-> 0, request |-> Request(NoStr, NoStr, NoSize, NoSize, "none"),
           kw |-> {}, cache_key |-> <<>>, at |-> 0, hit |-> FALSE]
FastNew ==
  /\ file_cache = EmptyMap
  /\ from_cache = FALSE
  /\ call = NoCall
  /\ prev = <<>>
  /\ listed = FALSE
  /\ abandoned = 0

\* AsyncScanner.__init__
ScanInit ==
  /\ fs \in FileSystems
  /\ max_concurrent \in 1..MaxPermits
  /\ follow_symlinks \in BOOLEAN
  /\ semaphore = max_concurrent
  /\ ignore_patterns = <<>>
  /\ stats = ZeroStats
  /\ pc = "idle"
  /\ request = Request(NoStr, NoStr, NoSize, NoSize, "none")
  /\ root = 0
  /\ stack = <<>>
  /\ cur = 0
  /\ results = <<>>
  /\ returned = <<>>
  /\ error = "none"
  /\ FastNew
  /\ CacheNew
  /\ ManagerNew
  /\ client = "facade"

\* add_ignore_pattern
AddIgnorePattern ==
  /\ pc = "idle"
  /\ Len(ignore_patterns) < MaxPatterns
  /\ \E p \in CallerPatterns : ignore_patterns' = Append(ignore_patterns, p)
  /\ UNCHANGED fastVars
  /\ UNCHANGED <<cacheVars, managerVars>>
  /\ UNCHANGED <<fs, max_concurrent, follow_symlinks, semaphore, stats, pc, request,
                 root, stack, cur, results, returned, error>>

\* scan, up to the first step of the generator
BeginWalk(rp, req) ==
  /\ request' = req
  /\ root' = resolve(fs, rp)
  /\ stack' = <<Frame(resolve(fs, rp), 0)>>
  /\ ignore_patterns' =
       IF ignore_patterns = <<>> THEN DefaultIgnorePatterns ELSE ignore_patterns
  /\ results' = <<>>
  /\ pc' = "scanning"
  /\ listed' = FALSE

StartScan ==
  /\ pc = "idle"
  /\ \E rp \in RootPaths, req \in Requests : BeginWalk(rp, req)
  /\ UNCHANGED <<file_cache, from_cache, call, prev, abandoned>>
  /\ UNCHANGED <<cacheVars, managerVars>>
  /\ UNCHANGED <<fs, max_concurrent, follow_symlinks, semaphore, stats, cur, returned,
                 error>>

\* _scan_generator entry: the depth test
EnterDirectory ==
  /\ pc = "scanning" /\ cur = 0 /\ stack # <<>>
  /\ Top.pc = "start"
  /\ stack' = IF Top.depth > MaxDepth THEN Pop ELSE SetTop([Top EXCEPT !.pc = "acquire"])
  /\ UNCHANGED fastVars
  /\ UNCHANGED <<cacheVars, managerVars>>
  /\ UNCHANGED <<fs, max_concurrent, follow_symlinks, semaphore, ignore_patterns, stats,
                 pc, request, root, cur, results, returned, error>>

\* a pool that admits a visit without a free permit
CanAcquire_Ungated(sem) == TRUE

\* whether "async with self.semaphore" may enter
CanAcquire(sem) == sem > 0

\* _listdir: async with self.semaphore
AcquirePermit ==
  /\ pc = "scanning" /\ cur = 0 /\ stack # <<>>
  /\ Top.pc = "acquire"
  /\ CanAcquire(semaphore)
  /\ semaphore' = semaphore - 1
  /\ stack' = SetTop([Top EXCEPT !.pc = "listing"])
  /\ UNCHANGED fastVars
  /\ UNCHANGED <<cacheVars, managerVars>>
  /\ UNCHANGED <<fs, max_concurrent, follow_symlinks, ignore_patterns, stats, pc, request,
                 root, cur, results, returned, error>>

\* _listdir: await aiofiles.os.listdir; a failure is swallowed by
\* "except Exception: return", which leaves the with block
ListDirectory ==
  /\ pc = "scanning" /\ cur = 0 /\ stack # <<>>
  /\ Top.pc = "listing"
  /\ IF ListdirOK(fs, Top.path)
     THEN /\ stack' = SetTop([Top EXCEPT !.pc = "iter", !.items = listdir(fs, Top.path)])
          /\ semaphore' = semaphore
     ELSE /\ stack' = Pop
          /\ semaphore' = semaphore + 1
  /\ listed' = TRUE
  /\ UNCHANGED <<file_cache, from_cache, call, prev, abandoned>>
  /\ UNCHANGED <<cacheVars, managerVars>>
  /\ UNCHANGED <<fs, max_concurrent, follow_symlinks, ignore_patterns, stats, pc, request,
                 root, cur, results, returned, error>>

\* a listing loop that follows a symbolic link whatever follow_symlinks says
NextEntry_FollowsLinks ==
  /\ pc = "scanning" /\ cur = 0 /\ stack # <<>>
  /\ Top.pc = "iter"
  /\ IF Top.items = <<>>
     THEN /\ stack' = Pop
          /\ semaphore' = semaphore + 1
          /\ UNCHANGED <<stats, cur>>
     ELSE LET item == Head(Top.items)
              rest == SetTop([Top EXCEPT !.items = Tail(Top.items)])
          IN /\ semaphore' = semaphore
             /\ IF fs[item].kind = "link"
                THEN IF FALSE
                     THEN /\ stack' = rest
                          /\ UNCHANGED <<stats, cur>>
                     ELSE IF is_dir(fs, fs[item].target)
                          THEN /\ stats' = [stats EXCEPT !.dirs_scanned = @ + 1]
                               /\ stack' = Append(rest, Frame(fs[item].target, 0))
                               /\ cur' = cur
                          ELSE /\ stack' = rest
                               /\ cur' = item
                               /\ stats' = stats
                ELSE IF is_dir(fs, item)
                     THEN /\ stats' = [stats EXCEPT !.dirs_scanned = @ + 1]
                          /\ stack' = Append(rest, Frame(item, Top.depth + 1))
                          /\ cur' = cur
                     ELSE /\ stack' = rest
                          /\ cur' = item
                          /\ stats' = stats
  /\ UNCHANGED fastVars
  /\ UNCHANGED <<cacheVars, managerVars>>
  /\ UNCHANGED <<fs, max_concurrent, follow_symlinks, ignore_patterns, pc, request, root,
                 results, returned, error>>

\* one turn of the "for item in items" loop of _listdir together with the
\* "async for entry" body of the _scan_generator that consumes it
NextEntry ==
  /\ pc = "scanning" /\ cur = 0 /\ stack # <<>>
  /\ Top.pc = "iter"
  /\ IF Top.items = <<>>
     THEN /\ stack' = Pop
          /\ semaphore' = semaphore + 1
          /\ UNCHANGED <<stats, cur>>
     ELSE LET item == Head(Top.items)
              rest == SetTop([Top EXCEPT !.items = Tail(Top.items)])
          IN /\ semaphore' = semaphore
             /\ IF fs[item].kind = "link"
                THEN IF ~follow_symlinks
                     THEN /\ stack' = rest
                          /\ UNCHANGED <<stats, cur>>
                     ELSE IF is_dir(fs, fs[item].target)
                          THEN /\ stats' = [stats EXCEPT !.dirs_scanned = @ + 1]
                               /\ stack' = Append(rest, Frame(fs[item].target, 0))
                               /\ cur' = cur
                          ELSE /\ stack' = rest
                               /\ cur' = item
                               /\ stats' = stats
                ELSE IF is_dir(fs, item)
                     THEN /\ stats' = [stats EXCEPT !.dirs_scanned = @ + 1]
                          /\ stack' = Append(rest, Frame(item, Top.depth + 1))
                          /\ cur' = cur
                     ELSE /\ stack' = rest
                          /\ cur' = item
                          /\ stats' = stats
  /\ UNCHANGED fastVars
  /\ UNCHANGED <<cacheVars, managerVars>>
  /\ UNCHANGED <<fs, max_concurrent, follow_symlinks, ignore_patterns, pc, request, root,
                 results, returned, error>>

\* whether aiofiles.os.stat(path) succeeds, and the st_size it reports
StatOK(f, n) ==
  IF f[n].kind = "file" THEN FileProfiles[f[n].profile].stat_ok
  ELSE f[n].kind = "link" /\ f[n].target # 0
StatSize(f, n) ==
  IF f[n].kind = "file" THEN FileProfiles[f[n].profile].size ELSE 0

\* the body of the "async for filepath" loop of scan
ProcessEntry ==
  /\ pc = "scanning" /\ cur # 0
  /\ LET ign == should_ignore(ignore_patterns, PathStr(fs, cur))
         name == Name(fs, cur)
         size == StatSize(fs, cur)
     IN IF ign = "NameError"
        THEN /\ pc' = "raised"
             /\ error' = "NameError"
             /\ UNCHANGED <<stats, cur, results>>
        ELSE IF ign = "True"
        THEN /\ stats' = [stats EXCEPT !.files_skipped = @ + 1]
             /\ cur' = 0
             /\ UNCHANGED <<pc, error, results>>
        ELSE IF ~StatOK(fs, cur)
        THEN /\ stats' = [stats EXCEPT !.permission_errors = @ + 1]
             /\ cur' = 0
             /\ UNCHANGED <<pc, error, results>>
        ELSE IF ~PassesFilters(request, name, size)
        THEN /\ cur' = 0
             /\ UNCHANGED <<pc, error, results, stats>>
        ELSE \* an exception of request.callback is swallowed, so calling
             \* it changes nothing in the scanner
             /\ stats' = [stats EXCEPT !.total_bytes = @ + size]
             /\ results' = Append(results, cur)
             /\ cur' = 0
             /\ UNCHANGED <<pc, error>>
  /\ UNCHANGED fastVars
  /\ UNCHANGED <<cacheVars, managerVars>>
  /\ UNCHANGED <<fs, max_concurrent, follow_symlinks, semaphore, ignore_patterns, request,
                 root, stack, returned>>

\* scan after the generator is exhausted
FinishScan ==
  /\ pc = "scanning" /\ cur = 0 /\ stack = <<>>
  /\ stats' = [stats EXCEPT !.files_found = Len(results)]
  /\ returned' = <<results>>
  /\ pc' = "done"
  /\ UNCHANGED fastVars
  /\ UNCHANGED <<cacheVars, managerVars>>
  /\ UNCHANGED <<fs, max_concurrent, follow_symlinks, semaphore, ignore_patterns, request,
                 root, stack, cur, results, error>>

ScanNext ==
  \/ AddIgnorePattern
  \/ StartScan
  \/ EnterDirectory
  \/ AcquirePermit
  \/ ListDirectory
  \/ NextEntry
  \/ ProcessEntry
  \/ FinishScan

ScanSpec == ScanInit /\ [][ScanNext]_vars

(***************************************************************************)
(* FastScanner: scan with the private result cache _file_cache.            *)
(***************************************************************************)
\* the trees a FastScanner is run on: files and listable directories
\* directly under the top directory
FlatFileSystems ==
  {f \in FileSystems :
     \A n \in Nodes \ {1} :
        \/ f[n].kind = "none"
        \/ f[n].kind = "dir" /\ f[n].parent = 1 /\ f[n].readable
        \/ f[n].kind = "file" /\ f[n].parent = 1 /\ f[n].profile = 1}

\* a call scan(root_path, ...): the filter arguments, and the names of those
\* passed by keyword (the others are passed positionally)
FastCall(rp, req, kw) == [root_path |-> rp, request |-> req, kw |-> kw]
FastCalls ==
  { FastCall(1, Request(NoStr, NoStr, NoSize, NoSize, "none"), {}),
    FastCall(1, Request(<<"a">>, NoStr, NoSize, NoSize, "none"), {"name_filter"}),
    FastCall(1, Request(<<"a">>, NoStr, NoSize, NoSize, "none"), {}),
    FastCall(2, Request(NoStr, NoStr, NoSize, NoSize, "none"), {}) }

\* the kwargs dict of a call, as the set of its items
kwargs(c) == {<<k, c.request[k]>> : k \in c.kw}

\* FastScanner._get_cache_key: md5 is taken to be free of collisions, so the
\* key is the data it digests
get_cache_key(root_path, filters, patterns) ==
  [path |-> root_path, filters |-> filters, ignore_patterns |-> patterns]

\* FastScanner._clean_cache
clean_cache(fc, t) ==
  [k \in {x \in DOMAIN fc : ~(t - fc[x].timestamp > FastTTL)} |-> fc[k]]

\* the permits held by the frames of a generator chain
PermitsHeld(st) == Cardinality({i \in DOMAIN st : st[i].pc \in {"listing", "iter"}})

FastInit ==
  /\ fs \in FlatFileSystems
  /\ max_concurrent = MaxPermits
  /\ follow_symlinks = FALSE
  /\ semaphore = max_concurrent
  /\ ignore_patterns = <<>>
  /\ stats = ZeroStats
  /\ pc = "idle"
  /\ request = Request(NoStr, NoStr, NoSize, NoSize, "none")
  /\ root = 0
  /\ stack = <<>>
  /\ cur = 0
  /\ results = <<>>
  /\ returned = <<>>
  /\ error = "none"
  /\ FastNew
  /\ CacheNew
  /\ ManagerNew
  /\ client = "manager"

\* FastScanner.scan up to its return from the cache or, on a miss, up to the
\* first step of the generator of super().scan; the generators of a scan
\* that raised are left suspended with their permits
FastScannerScan ==
  /\ pc \in {"idle", "done", "raised"}
  /\ Len(prev) + (IF pc = "idle" THEN 0 ELSE 1) < MaxScans
  /\ \E c \in FastCalls :
       LET cache_key == get_cache_key(c.root_path, kwargs(c), ignore_patterns)
           hit == /\ cache_key \in DOMAIN file_cache
                  /\ now - file_cache[cache_key].timestamp < FastTTL
       IN /\ call' = [root_path |-> c.root_path, request |-> c.request, kw |-> c.kw,
                      cache_key |-> cache_key, at |-> now, hit |-> hit]
          /\ IF hit
             THEN /\ from_cache' = TRUE
                  /\ returned' = <<file_cache[cache_key].files>>
                  /\ pc' = "done"
                  /\ stack' = <<>>
                  /\ listed' = FALSE
                  /\ UNCHANGED <<request, root, ignore_patterns, results>>
             ELSE /\ BeginWalk(c.root_path, c.request)
                  /\ returned' = <<>>
                  /\ UNCHANGED from_cache
  /\ prev' = IF pc = "idle" THEN prev
             ELSE Append(prev, [root_path |-> call.root_path, request |-> call.request,
                                kw |-> call.kw, cache_key |-> call.cache_key,
                                at |-> call.at, hit |-> call.hit, pc |-> pc,
                                returned |-> returned, listed |-> listed])
  /\ abandoned' = abandoned + PermitsHeld(stack)
  /\ cur' = 0
  /\ error' = "none"
  /\ UNCHANGED <<fs, max_concurrent, follow_symlinks, semaphore, stats, file_cache>>
  /\ UNCHANGED <<cacheVars, managerVars>>

\* super().scan after the generator is exhausted, and the rest of
\* FastScanner.scan: store the list, clean the cache, return
FastScannerReturn ==
  /\ pc = "scanning" /\ cur = 0 /\ stack = <<>>
  /\ stats' = [stats EXCEPT !.files_found = Len(results)]
  /\ returned' = <<results>>
  /\ pc' = "done"
  /\ file_cache' = clean_cache(With(file_cache, call.cache_key,
                                     [files |-> results, timestamp |-> now,
                                      count |-> Len(results)]), now)
  /\ UNCHANGED <<from_cache, call, prev, listed, abandoned>>
  /\ UNCHANGED <<cacheVars, managerVars>>
  /\ UNCHANGED <<fs, max_concurrent, follow_symlinks, semaphore, ignore_patterns, request,
                 root, stack, cur, results, error>>

\* the event loop finalises the abandoned generators: each leaves its
\* "async with self.semaphore" block
CloseAbandoned ==
  /\ abandoned > 0
  /\ semaphore' = semaphore + abandoned
  /\ abandoned' = 0
  /\ UNCHANGED <<file_cache, from_cache, call, prev, listed>>
  /\ UNCHANGED <<cacheVars, managerVars>>
  /\ UNCHANGED <<fs, max_concurrent, follow_symlinks, ignore_patterns, stats, pc, request,
                 root, stack, cur, results, returned, error>>

\* time passes between two calls
FastTick ==
  /\ pc # "scanning"
  /\ now < MaxTime
  /\ now' = now + 1
  /\ UNCHANGED <<memory_cache, disk_cache, client, last, accessed, set_at>>
  /\ UNCHANGED <<scanVars, fastVars, managerVars>>

FastNext ==
  \/ AddIgnorePattern
  \/ FastScannerScan
  \/ EnterDirectory
  \/ AcquirePermit
  \/ ListDirectory
  \/ NextEntry
  \/ ProcessEntry
  \/ FastScannerReturn
  \/ CloseAbandoned
  \/ FastTick

FastSpec == FastInit /\ [][FastNext]_vars

(***************************************************************************)
(* The cache calls.                                                        *)
(***************************************************************************)
ScannerIdle ==
  /\ fs = [n \in Nodes |-> IF n = 1 THEN RootDir ELSE NoNode]
  /\ max_concurrent = MaxPermits
  /\ follow_symlinks = FALSE
  /\ semaphore = max_concurrent
  /\ ignore_patterns = <<>>
  /\ stats = ZeroStats
  /\ pc = "idle"
  /\ request = Request(NoStr, NoStr, NoSize, NoSize, "none")
  /\ root = 0
  /\ stack = <<>>
  /\ cur = 0
  /\ results = <<>>
  /\ returned = <<>>
  /\ error = "none"
  /\ FastNew

CacheInit ==
  /\ ScannerIdle
  /\ CacheNew
  /\ ManagerNew
  /\ client \in {"memory", "disk", "damaged", "facade"}

\* the keys a client uses
KeysOf(c) == IF c \in {"damaged", "rejecting", "closing"} THEN {"k1", "k2"} ELSE Keys

MemReads == memory_cache.hits + memory_cache.misses
DiskReads == disk_cache.hits + disk_cache.misses

\* time passes
Tick ==
  /\ now < MaxTime
  /\ now' = now + 1
  /\ UNCHANGED <<memory_cache, disk_cache, client, last, accessed, set_at>>
  /\ UNCHANGED <<scanVars, fastVars, managerVars>>

CallMemoryGet ==
  /\ client = "memory"
  /\ MemReads < MaxReads
  /\ \E k \in Keys :
       LET r == MemoryCache_get(memory_cache, k, now)
       IN /\ memory_cache' = r.m
          /\ last' = Call("get", "memory", k, <<>>, r.ret, PriorSet("memory", k))
  /\ UNCHANGED <<now, disk_cache, client>>
  /\ accessed' = Recency(last'.ret # None, last'.key, memory_cache')
  /\ UNCHANGED set_at
  /\ UNCHANGED <<scanVars, fastVars, managerVars>>

CallMemorySet ==
  /\ client = "memory"
  /\ \E k \in Keys, v \in Values :
       /\ memory_cache' = MemoryCache_set(memory_cache, k, v, now)
       /\ last' = Call("set", "memory", k, v, None, <<>>)
  /\ UNCHANGED <<now, disk_cache, client>>
  /\ accessed' = Recency(TRUE, last'.key, memory_cache')
  /\ UNCHANGED set_at
  /\ UNCHANGED <<scanVars, fastVars, managerVars>>

CallMemoryDelete ==
  /\ client = "memory"
  /\ \E k \in Keys :
       /\ memory_cache' = MemoryCache_delete(memory_cache, k)
       /\ last' = Call("delete", "memory", k, <<>>, None, <<>>)
  /\ UNCHANGED <<now, disk_cache, client>>
  /\ accessed' = Recency(FALSE, last'.key, memory_cache')
  /\ UNCHANGED set_at
  /\ UNCHANGED <<scanVars, fastVars, managerVars>>

CallMemoryClear ==
  /\ client = "memory"
  /\ memory_cache' = MemoryCache_clear(memory_cache)
  /\ last' = Call("clear", "memory", "", <<>>, None, <<>>)
  /\ UNCHANGED <<now, disk_cache, client>>
  /\ accessed' = Recency(FALSE, "", memory_cache')
  /\ UNCHANGED set_at
  /\ UNCHANGED <<scanVars, fastVars, managerVars>>

CallMemoryCleanup ==
  /\ client = "memory"
  /\ LET r == MemoryCache_cleanup_expired(memory_cache, now)
     IN /\ memory_cache' = r.m
        /\ last' = Call("cleanup", "memory", "", <<>>, <<r.ret>>, <<>>)
  /\ UNCHANGED <<now, disk_cache, client>>
  /\ accessed' = Recency(FALSE, "", memory_cache')
  /\ UNCHANGED set_at
  /\ UNCHANGED <<scanVars, fastVars, managerVars>>

CallDiskGet ==
  /\ client \in {"disk", "damaged", "closing"}
  /\ DiskReads < MaxReads
  /\ \E k \in KeysOf(client) :
       LET r == DiskCache_get(disk_cache, k, now)
       IN /\ disk_cache' = r.d
          /\ last' = Call("get", "disk", k, <<>>, r.ret, PriorSet("disk", k))
  /\ UNCHANGED <<now, memory_cache, client, accessed, set_at>>
  /\ UNCHANGED <<scanVars, fastVars, managerVars>>

CallDiskSet ==
  /\ client \in {"disk", "damaged", "closing"}
  /\ \E k \in KeysOf(client), v \in Values, path \in CachePaths, total \in TotalSizes :
       /\ disk_cache' = DiskCache_set(disk_cache, k, v, path, total, now)
       /\ last' = Call("set", "disk", k, v, None, <<>>)
  /\ UNCHANGED <<now, memory_cache, client, accessed, set_at>>
  /\ UNCHANGED <<scanVars, fastVars, managerVars>>

CallDiskDelete ==
  /\ client = "disk"
  /\ \E k \in Keys :
       /\ disk_cache' = DiskCache_delete(disk_cache, k)
       /\ last' = Call("delete", "disk", k, <<>>, None, <<>>)
  /\ UNCHANGED <<now, memory_cache, client, accessed, set_at>>
  /\ UNCHANGED <<scanVars, fastVars, managerVars>>

CallDiskClear ==
  /\ client = "disk"
  /\ disk_cache' = DiskCache_clear(disk_cache)
  /\ last' = Call("clear", "disk", "", <<>>, None, <<>>)
  /\ UNCHANGED <<now, memory_cache, client, accessed, set_at>>
  /\ UNCHANGED <<scanVars, fastVars, managerVars>>

CallDiskCleanup ==
  /\ client = "disk"
  /\ LET r == DiskCache_cleanup_expired(disk_cache, now)
     IN /\ disk_cache' = r.d
        /\ last' = Call("cleanup", "disk", "", <<>>, <<r.ret>>, <<>>)
  /\ UNCHANGED <<now, memory_cache, client, accessed, set_at>>
  /\ UNCHANGED <<scanVars, fastVars, managerVars>>

\* the database file is damaged behind the cache's back: the payload of one
\* intact row is truncated
CorruptRow ==
  /\ client = "damaged"
  /\ \E k \in DOMAIN disk_cache.rows :
       /\ loads(disk_cache.rows[k].value).ok
       /\ disk_cache' = DiskCache_damage(disk_cache, k)
       /\ last' = Call("damage", "disk", k, <<>>, None, <<>>)
  /\ UNCHANGED <<now, memory_cache, client, accessed, set_at>>
  /\ UNCHANGED <<scanVars, fastVars, managerVars>>

CallFacadeGet ==
  /\ client \in {"facade", "rejecting"}
  /\ MemReads < MaxReads /\ DiskReads < MaxReads
  /\ \E k \in KeysOf(client) :
       LET r == HierarchicalCache_get(memory_cache, disk_cache, k, now)
       IN /\ memory_cache' = r.m
          /\ disk_cache' = r.d
          /\ last' = Call("get", "facade", k, <<>>, r.ret, PriorSet("facade", k))
  /\ UNCHANGED <<now, client>>
  /\ accessed' = Recency(last'.ret # None, last'.key, memory_cache')
  /\ UNCHANGED set_at
  /\ UNCHANGED <<scanVars, fastVars, managerVars>>

CallFacadeSet ==
  /\ client \in {"facade", "rejecting"}
  /\ \E k \in KeysOf(client), v \in Values, path \in CachePaths, total \in TotalSizes :
       LET r == HierarchicalCache_set(memory_cache, disk_cache, k, v, path, total, now)
       IN /\ memory_cache' = r.m
          /\ disk_cache' = r.d
          /\ last' = Call("set", "facade", k, v, None, <<>>)
          /\ set_at' = With(set_at, k, now)
  /\ UNCHANGED <<now, client>>
  /\ accessed' = Recency(TRUE, last'.key, memory_cache')
  /\ UNCHANGED <<scanVars, fastVars, managerVars>>

CallFacadeDelete ==
  /\ client = "facade"
  /\ \E k \in Keys :
       LET r == HierarchicalCache_delete(memory_cache, disk_cache, k)
       IN /\ memory_cache' = r.m
          /\ disk_cache' = r.d
          /\ last' = Call("delete", "facade", k, <<>>, None, <<>>)
          /\ set_at' = Without(set_at, k)
  /\ UNCHANGED <<now, client>>
  /\ accessed' = Recency(FALSE, last'.key, memory_cache')
  /\ UNCHANGED <<scanVars, fastVars, managerVars>>

CallFacadeClear ==
  /\ client = "facade"
  /\ LET r == HierarchicalCache_clear(memory_cache, disk_cache)
     IN /\ memory_cache' = r.m
        /\ disk_cache' = r.d
        /\ last' = Call("clear", "facade", "", <<>>, None, <<>>)
  /\ UNCHANGED <<now, client>>
  /\ accessed' = Recency(FALSE, "", memory_cache')
  /\ set_at' = EmptyMap
  /\ UNCHANGED <<scanVars, fastVars, managerVars>>

CallFacadeCleanup ==
  /\ client = "facade"
  /\ LET r == HierarchicalCache_cleanup(memory_cache, disk_cache, now)
     IN /\ memory_cache' = r.m
        /\ disk_cache' = r.d
        /\ last' = Call("cleanup", "facade", "", <<>>, <<r.total_cleaned>>, <<>>)
  /\ UNCHANGED <<now, client>>
  /\ accessed' = Recency(FALSE, "", memory_cache')
  /\ UNCHANGED set_at
  /\ UNCHANGED <<scanVars, fastVars, managerVars>>

CacheNext ==
  \/ Tick
  \/ CallMemoryGet
  \/ CallMemorySet
  \/ CallMemoryDelete
  \/ CallMemoryClear
  \/ CallMemoryCleanup
  \/ CallDiskGet
  \/ CallDiskSet
  \/ CallDiskDelete
  \/ CallDiskClear
  \/ CallDiskCleanup
  \/ CorruptRow
  \/ CallFacadeGet
  \/ CallFacadeSet
  \/ CallFacadeDelete
  \/ CallFacadeClear
  \/ CallFacadeCleanup

CacheSpec == CacheInit /\ [][CacheNext]_vars

(***************************************************************************)
(* The persistent store rejecting writes, and shutdown.                    *)
(***************************************************************************)
\* the caller holds a facade whose store can reject a write ("rejecting"), or
\* a persistent tier that is closed at some point ("closing")
StoreInit ==
  /\ ScannerIdle
  /\ CacheNew
  /\ ManagerNew
  /\ client \in {"rejecting", "closing"}

\* a facade set during which the store rejects the write of the persistent
\* tier (disk full, database locked)
CallFacadeSetRejected ==
  /\ client = "rejecting"
  /\ \E k \in KeysOf(client), v \in Values, path \in CachePaths, total \in TotalSizes,
        stage \in Stages :
       LET r == HierarchicalCache_set_rejected(memory_cache, disk_cache, k, v, path, total,
                                               now, stage)
       IN /\ memory_cache' = r.m
          /\ disk_cache' = r.d
          /\ last' = Call("set_rejected", "facade", k, v, None, <<stage>>)
          /\ set_at' = With(set_at, k, now)
  /\ UNCHANGED <<now, client>>
  /\ accessed' = Recency(TRUE, last'.key, memory_cache')
  /\ UNCHANGED <<scanVars, fastVars, managerVars>>

\* DiskCache.close, called by the owner or by the atexit hook
CallDiskClose ==
  /\ client = "closing"
  /\ disk_cache' = DiskCache_close(disk_cache, now)
  /\ last' = Call("close", "disk", "", <<>>, None, <<>>)
  /\ UNCHANGED <<now, memory_cache, client, accessed, set_at>>
  /\ UNCHANGED <<scanVars, fastVars, managerVars>>

StoreNext ==
  \/ Tick
  \/ CallFacadeGet
  \/ CallFacadeSet
  \/ CallFacadeSetRejected
  \/ CallDiskGet
  \/ CallDiskSet
  \/ CallDiskClose

StoreSpec == StoreInit /\ [][StoreNext]_vars

(***************************************************************************)
(* The calls on the CacheManager singleton.                                *)
(***************************************************************************)
\* the caller is a "lister", which stores one file list in the empty cache and
\* looks it up under every spelling of the queries, a "manager" client, which
\* uses the whole interface with one query, or a "toggler", which switches
\* the manager off and on around its file-list calls
ManagerInit ==
  /\ ScannerIdle
  /\ CacheNew
  /\ ManagerNew
  /\ client \in {"lister", "manager", "toggler"}

QueriesOf(c) ==
  IF c = "lister" THEN Queries
  ELSE {q \in Queries : q.path = <<"/", "r">> /\ Len(q.filters) = 1}

\* for a get_file_list or a clear_all, the set_file_list it directly follows:
\* <<file_list, time, query>>; for a set_directory_stats, the modification
\* time the directory /r had when the call was made: <<mtime>>
PriorSetFileList ==
  IF last.op = "set_file_list" THEN <<last.value, last.at, last.key>> ELSE <<>>

ManagerEnable ==
  /\ client \in {"manager", "toggler"}
  /\ enabled' = TRUE
  /\ last' = Call("enable", "manager", "", <<>>, None, <<>>)
  /\ held' = IF client = "toggler" /\ held.phase = "disabled"
             THEN [held EXCEPT !.phase = "reenabled"] ELSE held
  /\ UNCHANGED <<now, memory_cache, disk_cache, client, accessed, set_at, fs_cache, dir_mtime>>
  /\ UNCHANGED instance
  /\ UNCHANGED <<scanVars, fastVars>>

ManagerDisable ==
  /\ client \in {"manager", "toggler"}
  /\ enabled' = FALSE
  /\ last' = Call("disable", "manager", "", <<>>, None, <<>>)
  /\ held' = IF client = "toggler" /\ held.entry # None /\ held.phase = "stored"
             THEN [held EXCEPT !.phase = "disabled"] ELSE held
  /\ UNCHANGED <<now, memory_cache, disk_cache, client, accessed, set_at, fs_cache, dir_mtime>>
  /\ UNCHANGED instance
  /\ UNCHANGED <<scanVars, fastVars>>

ManagerGetFileList ==
  /\ client \in {"lister", "manager", "toggler"}
  /\ MemReads < MaxReads /\ DiskReads < MaxReads
  /\ \E q \in QueriesOf(client) :
       LET r == CacheManager_get_file_list(enabled, memory_cache, disk_cache,
                                           q.path, q.filters, now)
       IN /\ memory_cache' = r.m
          /\ disk_cache' = r.d
          /\ last' = Call("get_file_list", "manager", q, <<>>, r.ret, PriorSetFileList)
          /\ accessed' = Recency(r.ret # None, make_cache_key(q.path, q.filters), r.m)
          /\ UNCHANGED set_at
  /\ held' = IF client = "toggler" /\ ~enabled /\ held.entry # None
             THEN [held EXCEPT !.bypassed = TRUE] ELSE held
  /\ UNCHANGED <<now, client, enabled, fs_cache, dir_mtime>>
  /\ UNCHANGED instance
  /\ UNCHANGED <<scanVars, fastVars>>

ManagerSetFileList ==
  /\ client \in {"lister", "manager", "toggler"}
  /\ client = "lister" => DOMAIN disk_cache.rows = {}
  /\ \E q \in QueriesOf(client), file_list \in Values :
       LET r == CacheManager_set_file_list(enabled, memory_cache, disk_cache,
                                           q.path, q.filters, file_list, fs, now)
       IN /\ memory_cache' = r.m
          /\ disk_cache' = r.d
          /\ last' = Call("set_file_list", "manager", q, file_list, None, <<>>)
          /\ accessed' = Recency(enabled, make_cache_key(q.path, q.filters), r.m)
          /\ UNCHANGED set_at
          /\ held' = IF client # "toggler" THEN held
                     ELSE IF enabled
                          THEN [entry |-> Some([query |-> q, file_list |-> file_list,
                                                at |-> now]),
                                phase |-> "stored", bypassed |-> FALSE]
                          ELSE [held EXCEPT !.bypassed = (held.entry # None)]
  /\ UNCHANGED <<now, client, enabled, fs_cache, dir_mtime>>
  /\ UNCHANGED instance
  /\ UNCHANGED <<scanVars, fastVars>>

ManagerGetDirectoryStats ==
  /\ client = "manager"
  /\ \E path \in DirPaths :
       last' = Call("get_directory_stats", "manager", path, <<>>,
                    CacheManager_get_directory_stats(enabled, fs_cache, path, dir_mtime),
                    <<>>)
  /\ UNCHANGED <<now, memory_cache, disk_cache, client, accessed, set_at, enabled, fs_cache,
                 dir_mtime, held>>
  /\ UNCHANGED instance
  /\ UNCHANGED <<scanVars, fastVars>>

ManagerSetDirectoryStats ==
  /\ client = "manager"
  /\ \E path \in DirPaths, state \in DirStats :
       /\ fs_cache' = CacheManager_set_directory_stats(enabled, fs_cache, path, state,
                                                       dir_mtime, now)
       /\ last' = Call("set_directory_stats", "manager", path, <<state>>, None,
                       <<dir_mtime>>)
  /\ UNCHANGED <<now, memory_cache, disk_cache, client, accessed, set_at, enabled, dir_mtime,
                 held>>
  /\ UNCHANGED instance
  /\ UNCHANGED <<scanVars, fastVars>>

\* clear_all
ManagerClearAll ==
  /\ client \in {"manager", "toggler"}
  /\ LET r == HierarchicalCache_clear(memory_cache, disk_cache)
     IN /\ memory_cache' = r.m
        /\ disk_cache' = r.d
        /\ accessed' = Recency(FALSE, "", r.m)
        /\ UNCHANGED set_at
  /\ last' = Call("clear_all", "manager", "", <<>>, None, PriorSetFileList)
  /\ held' = NoHeld
  /\ UNCHANGED <<now, client, enabled, fs_cache, dir_mtime>>
  /\ UNCHANGED instance
  /\ UNCHANGED <<scanVars, fastVars>>

ManagerCleanup ==
  /\ client \in {"manager", "toggler"}
  /\ LET r == CacheManager_cleanup(memory_cache, disk_cache, fs_cache, now)
     IN /\ memory_cache' = r.m
        /\ disk_cache' = r.d
        /\ fs_cache' = r.fc
        /\ accessed' = Recency(FALSE, "", r.m)
        /\ UNCHANGED set_at
        /\ last' = Call("cleanup", "manager", "", <<>>,
                        Some([memory_cleaned |-> r.memory_cleaned,
                              disk_cleaned |-> r.disk_cleaned,
                              fs_cleaned |-> r.fs_cleaned,
                              total_cleaned |-> r.total_cleaned]), <<>>)
  /\ UNCHANGED <<now, client, enabled, dir_mtime, held>>
  /\ UNCHANGED instance
  /\ UNCHANGED <<scanVars, fastVars>>

\* CacheManager(): one more construction, by any module of the process
ManagerConstruct ==
  /\ client = "manager"
  /\ LET r == CacheManager_new(instance, enabled, memory_cache, disk_cache, fs_cache)
     IN /\ instance' = r.instance
        /\ enabled' = r.enabled
        /\ memory_cache' = r.m
        /\ disk_cache' = r.d
        /\ fs_cache' = r.fc
        /\ accessed' = Recency(FALSE, "", r.m)
  /\ last' = Call("CacheManager", "manager", "", <<>>, None, <<>>)
  /\ UNCHANGED <<now, client, set_at, dir_mtime, held>>
  /\ UNCHANGED <<scanVars, fastVars>>

\* an entry is added to or removed from the directory /r
TouchDirectory ==
  /\ client = "manager"
  /\ dir_mtime < now
  /\ dir_mtime' = now
  /\ UNCHANGED <<now, memory_cache, disk_cache, client, last, accessed, set_at, enabled,
                 fs_cache, held>>
  /\ UNCHANGED instance
  /\ UNCHANGED <<scanVars, fastVars>>

ManagerNext ==
  \/ Tick
  \/ TouchDirectory
  \/ ManagerEnable
  \/ ManagerDisable
  \/ ManagerConstruct
  \/ ManagerGetFileList
  \/ ManagerSetFileList
  \/ ManagerGetDirectoryStats
  \/ ManagerSetDirectoryStats
  \/ ManagerClearAll
  \/ ManagerCleanup

ManagerSpec == ManagerInit /\ [][ManagerNext]_vars

(***************************************************************************)
(* Properties of a scan.                                                   *)
(***************************************************************************)
ScanEnded == pc \in {"done", "raised"}
ValidRoot == is_dir(fs, root)
SeqSet(seq) == {seq[i] : i \in DOMAIN seq}

RECURSIVE IsUnder(_, _, _)
IsUnder(f, r, n) ==
  IF n = r THEN TRUE
  ELSE IF n = 0 \/ n = 1 THEN FALSE
  ELSE IsUnder(f, r, f[n].parent)

RECURSIVE DepthBelow(_, _, _)
DepthBelow(f, r, n) == IF n = r THEN 0 ELSE 1 + DepthBelow(f, r, f[n].parent)

\* directory d is under the root, within the depth ceiling, and reached
\* through listable directories only (symlinks not followed)
RECURSIVE Listable(_, _, _)
Listable(f, r, d) ==
  /\ IsUnder(f, r, d)
  /\ DepthBelow(f, r, d) <= MaxDepth
  /\ d = r \/ (ListdirOK(f, f[d].parent) /\ Listable(f, r, f[d].parent))

\* entry n is produced by the listing of some visited directory
Encountered(n) ==
  /\ n # root /\ IsUnder(fs, root, n)
  /\ ListdirOK(fs, fs[n].parent) /\ Listable(fs, root, fs[n].parent)

Ignored(n) ==
  \E i \in DOMAIN ignore_patterns : fnmatch(PathStr(fs, n), ignore_patterns[i])

\* the files a scan has to return
ExpectedFiles ==
  {n \in Nodes : /\ fs[n].kind = "file" /\ Encountered(n)
                 /\ ~Ignored(n) /\ StatOK(fs, n)
                 /\ PassesFilters(request, Name(fs, n), StatSize(fs, n))}

\* the directories whose listing fails, and the files whose stat fails
UnreadableDirs ==
  {d \in Nodes : /\ fs[d].kind = "dir" /\ Encountered(d) /\ ~fs[d].readable
                 /\ DepthBelow(fs, root, d) <= MaxDepth}
StatFailing ==
  {n \in Nodes : fs[n].kind = "file" /\ Encountered(n) /\ ~Ignored(n) /\ ~StatOK(fs, n)}

\* a tree under the root with no link, every directory listable and within
\* the depth ceiling, every file statable
PlainTree ==
  /\ ~follow_symlinks
  /\ \A n \in Nodes : IsUnder(fs, root, n) /\ fs[n].kind = "dir" =>
        fs[n].readable /\ DepthBelow(fs, root, n) <= MaxDepth
  /\ \A n \in Nodes : IsUnder(fs, root, n) /\ fs[n].kind = "file" => StatOK(fs, n)

RECURSIVE SumSizes(_)
SumSizes(ns) ==
  IF ns = {} THEN 0
  ELSE LET n == CHOOSE x \in ns : TRUE IN StatSize(fs, n) + SumSizes(ns \ {n})

HoldsPermit(fr) == fr.pc \in {"listing", "iter"}
HeldPermits == Cardinality({i \in DOMAIN stack : HoldsPermit(stack[i])})

\* C1: a scan of a valid root returns exactly the files under the root that
\* are not ignored and pass every filter, each path once.
C1_ScanReturnsMatchingFiles ==
  (ScanEnded /\ ValidRoot /\ PlainTree) =>
     /\ pc = "done"
     /\ SeqSet(results) = ExpectedFiles
     /\ Len(results) = Cardinality(ExpectedFiles)

\* C2: with symlinks not followed, the walker is never stuck waiting for a
\* listing permit: all permits are held by the suspended visits below the
\* waiting one in the same chain, so a wait on an empty pool never ends.
C2_NeverBlockedOnPermit ==
  ~follow_symlinks =>
     ~(pc = "scanning" /\ stack # <<>> /\ Top.pc = "acquire" /\ semaphore = 0)

\* C3: no directory visit holds a permit while the visit of one of its
\* descendants is in progress.
C3_PermitReleasedBeforeRecursing ==
  \A i \in DOMAIN stack : i < Len(stack) => ~HoldsPermit(stack[i])

\* C4: the number of listings holding a permit never exceeds the permit
\* count the scanner was configured with.
C4_OutstandingListingsBounded == HeldPermits <= max_concurrent

\* C4 witness: every permit of a pool of at least two is held and one more
\* visit is waiting to acquire.
C4_PoolExhausted ==
  /\ stack # <<>> /\ Top.pc = "acquire"
  /\ max_concurrent > 1 /\ HeldPermits = max_concurrent

\* C5: after a scan that met unreadable directories, the result holds the
\* files of the readable ones and the permission-error counter equals the
\* number of unreadable directories.
C5_UnreadableDirectoryCounted ==
  (pc = "done" /\ ValidRoot /\ ~follow_symlinks /\ UnreadableDirs # {} /\ StatFailing = {}) =>
     /\ SeqSet(results) = ExpectedFiles
     /\ stats.permission_errors = Cardinality(UnreadableDirs)

\* C6: each file whose stat fails adds one to the permission-error counter,
\* is left out of the result and of total_bytes, and every other matching
\* file is still returned.
C6_StatFailureSkipsEntry ==
  (ScanEnded /\ ValidRoot /\ ~follow_symlinks /\ StatFailing # {} /\ UnreadableDirs = {}) =>
     /\ pc = "done"
     /\ stats.permission_errors = Cardinality(StatFailing)
     /\ SeqSet(results) = ExpectedFiles
     /\ stats.total_bytes = SumSizes(ExpectedFiles)

\* C7: a scan of a root that is a directory never raises to its caller.
C7_ValidRootNeverRaises == ValidRoot => pc # "raised"

\* C8: a scan of a root that is missing or not a directory raises a
\* configuration error at its start: it neither walks nor returns a list.
C8_InvalidRootRaises ==
  (pc # "idle" /\ ~ValidRoot) => (pc = "raised" /\ error = "ConfigurationError")

\* C9: no directory is listed at a nesting depth, counted from the scan
\* root, greater than the depth ceiling, with or without symlink following.
C9_DepthCeilingIsHard ==
  \A i \in DOMAIN stack : HoldsPermit(stack[i]) => i - 1 <= MaxDepth

\* C27: with follow_symlinks off, every directory visit is the visit of the
\* scan root or of a real subdirectory listed by the visit below it, and
\* every path yielded or collected is a file, not a link, under the scan
\* root.
C27_RealPath(n) == fs[n].kind = "file" /\ IsUnder(fs, root, n)
C27_LinksNotTraversed ==
  ~follow_symlinks =>
     /\ \A i \in DOMAIN stack :
           IF i = 1 THEN stack[i].path = root /\ stack[i].depth = 0
           ELSE /\ fs[stack[i].path].kind = "dir"
                /\ fs[stack[i].path].parent = stack[i - 1].path
                /\ stack[i].depth = stack[i - 1].depth + 1
     /\ cur # 0 => C27_RealPath(cur)
     /\ \A i \in DOMAIN results : C27_RealPath(results[i])

\* C27 witness: a scan with follow_symlinks off has returned on a tree where
\* a listed directory holds a link to a directory.
C27_LinkSkipped ==
  /\ ~follow_symlinks /\ pc = "done"
  /\ \E n \in Nodes : /\ fs[n].kind = "link" /\ is_dir(fs, fs[n].target)
                       /\ Encountered(n)

\* C28: a scan with follow_symlinks on, of a tree in which a listed directory
\* holds a link to a directory that the walk also reaches natively, returns a
\* list in which no path occurs twice.
C28_ResultDeduplicated ==
  (/\ ScanEnded /\ follow_symlinks /\ ValidRoot
   /\ \E n \in Nodes : /\ fs[n].kind = "link" /\ Encountered(n)
                        /\ is_dir(fs, fs[n].target)
                        /\ IsUnder(fs, root, fs[n].target)) =>
     /\ pc = "done"
     /\ \A i, j \in DOMAIN results : i # j => results[i] # results[j]

\* C29: once a scan has started, the pattern list is the default set if the
\* caller had registered no pattern and otherwise exactly the caller's
\* patterns; and a scan of a plain tree that holds ignored files returns with
\* every ignored file left out of the result and counted once in
\* files_skipped.
C29_IgnoredFiles == {n \in Nodes : fs[n].kind = "file" /\ Encountered(n) /\ Ignored(n)}
C29_DefaultsOnlyWhenNoneRegistered ==
  /\ pc # "idle" =>
       \/ ignore_patterns = DefaultIgnorePatterns
       \/ /\ ignore_patterns # <<>>
          /\ \A i \in DOMAIN ignore_patterns : ignore_patterns[i] \in CallerPatterns
  /\ (ScanEnded /\ ValidRoot /\ PlainTree /\ C29_IgnoredFiles # {}) =>
       /\ pc = "done"
       /\ SeqSet(results) \cap C29_IgnoredFiles = {}
       /\ stats.files_skipped = Cardinality(C29_IgnoredFiles)

(***************************************************************************)
(* Properties of the cache tiers.                                          *)
(***************************************************************************)
TierTTL(tier) ==
  IF tier = "memory" THEN MemTTL
  ELSE IF tier = "disk" THEN DiskTTL
  ELSE IF MemTTL > DiskTTL THEN MemTTL ELSE DiskTTL

\* C10: in each tier and in the facade, a get that directly follows a set of
\* the same key, no later than the TTL after it, returns the value set.
C10_RoundTrip ==
  (last.op = "get" /\ last.prior # <<>> /\ last.at - last.prior[2] <= TierTTL(last.tier)) =>
     last.ret = Some(last.prior[1])

\* C10 witness: a facade get exactly DiskTTL after the set of a non-empty
\* list returned that list.
C10_RoundTripAtTTL ==
  /\ last.op = "get" /\ last.tier = "facade" /\ last.prior # <<>>
  /\ last.prior[1] # <<>>
  /\ last.at - last.prior[2] = DiskTTL
  /\ last.ret = Some(last.prior[1])

\* C11: in the memory tier and in the persistent tier, a get of a stored key
\* later than the TTL after it was stored is a miss, removes the entry, adds
\* one to misses and leaves hits alone; a get no later than the TTL is a hit
\* that returns the stored value.
C11_MemoryGet ==
  (client = "memory" /\ MemReads' = MemReads + 1 /\ last'.key \in DOMAIN memory_cache.cache) =>
     LET k == last'.key
         e == memory_cache.cache[k]
     IN IF now - e.timestamp > MemTTL
        THEN /\ last'.ret = None
             /\ k \notin DOMAIN memory_cache'.cache
             /\ memory_cache'.misses = memory_cache.misses + 1
             /\ memory_cache'.hits = memory_cache.hits
        ELSE /\ last'.ret = Some(e.value)
             /\ k \in DOMAIN memory_cache'.cache
             /\ memory_cache'.hits = memory_cache.hits + 1
             /\ memory_cache'.misses = memory_cache.misses
C11_DiskGet ==
  (client = "disk" /\ DiskReads' = DiskReads + 1 /\ last'.key \in DOMAIN disk_cache.rows) =>
     LET k == last'.key
         e == disk_cache.rows[k]
     IN IF now - e.timestamp > DiskTTL
        THEN /\ last'.ret = None
             /\ k \notin DOMAIN disk_cache'.rows
             /\ disk_cache'.misses = disk_cache.misses + 1
             /\ disk_cache'.hits = disk_cache.hits
        ELSE /\ last'.ret = Some(loads(e.value).value)
             /\ k \in DOMAIN disk_cache'.rows
             /\ disk_cache'.hits = disk_cache.hits + 1
             /\ disk_cache'.misses = disk_cache.misses
C11_TTLExpiry == [][C11_MemoryGet /\ C11_DiskGet]_vars

\* C11 witness: a memory get later than MemTTL after the set of the same key
\* missed, and the entry is gone.
C11_ExpiredRead ==
  /\ last.op = "get" /\ last.tier = "memory" /\ last.prior # <<>>
  /\ last.at - last.prior[2] > MemTTL
  /\ last.ret = None
  /\ last.key \notin DOMAIN memory_cache.cache
  /\ memory_cache.misses = 1 /\ memory_cache.hits = 0

\* C12: when a key that is not stored is set while the memory tier holds
\* max_size unexpired entries, exactly one entry leaves the tier and it is the
\* least recently accessed one (an access is a set or a get that hit); the
\* other old entries stay as they were and the new key is stored.
C12_NewKeyAtCapacity(k) ==
  /\ k \notin DOMAIN memory_cache.cache
  /\ k \in DOMAIN memory_cache'.cache
  /\ Cardinality(DOMAIN memory_cache.cache) = MaxSize
  /\ \A x \in DOMAIN memory_cache.cache : now - memory_cache.cache[x].timestamp <= MemTTL
C12_LRUEviction ==
  [][\A k \in Keys : C12_NewKeyAtCapacity(k) =>
        LET victim == Head(accessed)
            kept == DOMAIN memory_cache.cache \ {victim}
        IN /\ victim \in DOMAIN memory_cache.cache
           /\ DOMAIN memory_cache'.cache = kept \cup {k}
           /\ \A x \in kept : memory_cache'.cache[x] = memory_cache.cache[x]
           /\ last'.op = "set" => memory_cache'.cache[k].value = last'.value]_vars

\* C12 witness: right after a set the memory tier is full while a key written
\* through both tiers at the same clock tick is held by the persistent tier
\* only: the set evicted it; a get hit had reordered the keys before.
C12_Evicted ==
  /\ last.op = "set" /\ last.tier = "facade" /\ now = 0
  /\ Cardinality(DOMAIN memory_cache.cache) = MaxSize
  /\ last.key \in DOMAIN memory_cache.cache
  /\ \E y \in DOMAIN disk_cache.rows : y \notin DOMAIN memory_cache.cache
  /\ memory_cache.hits > 0

\* C13: after any sequence of get, set, delete, clear and cleanup_expired the
\* memory tier holds at most max_size entries.
C13_MemoryBounded == Cardinality(DOMAIN memory_cache.cache) <= MaxSize

\* C13 witness: more keys than max_size are stored in the persistent tier,
\* a facade get has just promoted one of them, and the memory tier is full.
C13_FullAfterPromotion ==
  /\ last.op = "get" /\ last.tier = "facade" /\ last.ret # None
  /\ disk_cache.hits > 0
  /\ Cardinality(DOMAIN disk_cache.rows) > MaxSize
  /\ Cardinality(DOMAIN memory_cache.cache) = MaxSize
  /\ last.key \in DOMAIN memory_cache.cache

\* C14: a facade get that misses the memory tier and hits the persistent tier
\* returns the persistent value and leaves the memory tier holding it under
\* the key, so that a facade get of the key up to the memory TTL later is a
\* memory hit that does not consult the persistent tier; a facade get that
\* misses both tiers returns not-found and leaves the key in neither tier.
C14_FacadeGet == client = "facade" /\ MemReads' = MemReads + 1
C14_ReadThroughPromotion ==
  [][C14_FacadeGet =>
       LET k == last'.key
           memMiss == memory_cache'.misses = memory_cache.misses + 1
           diskHit == disk_cache'.hits = disk_cache.hits + 1
           diskMiss == disk_cache'.misses = disk_cache.misses + 1
       IN /\ (memMiss /\ diskHit) =>
                /\ last'.ret = Some(loads(disk_cache.rows[k].value).value)
                /\ k \in DOMAIN memory_cache'.cache
                /\ memory_cache'.cache[k].value = last'.ret[1]
                /\ \A dt \in 0..MemTTL :
                      LET r == HierarchicalCache_get(memory_cache', disk_cache', k, now' + dt)
                      IN /\ r.ret = last'.ret
                         /\ r.m.hits = memory_cache'.hits + 1
                         /\ r.d = disk_cache'
          /\ (memMiss /\ diskMiss) =>
                /\ last'.ret = None
                /\ k \notin DOMAIN memory_cache'.cache
                /\ k \notin DOMAIN disk_cache'.rows
                /\ DOMAIN memory_cache'.cache \subseteq DOMAIN memory_cache.cache
                /\ DOMAIN disk_cache'.rows \subseteq DOMAIN disk_cache.rows]_vars

\* C14 witness: a facade get returned a non-empty list that the persistent
\* tier had stored earlier, and the memory entry of the key dates from the get.
C14_Promoted ==
  /\ last.op = "get" /\ last.tier = "facade" /\ last.ret # None /\ last.ret[1] # <<>>
  /\ memory_cache.misses > 0 /\ disk_cache.hits > 0
  /\ last.key \in DOMAIN memory_cache.cache /\ last.key \in DOMAIN disk_cache.rows
  /\ memory_cache.cache[last.key].timestamp = last.at
  /\ disk_cache.rows[last.key].timestamp < last.at
  /\ memory_cache.cache[last.key].value = last.ret[1]

\* C15: after a facade set both tiers hold the value under the key, and a
\* facade get of the key that directly follows (no call between, no later
\* than the memory TTL) returns the value from the memory tier alone: the
\* hit and miss counters of the persistent tier do not change.
C15_BothTiersHold(c) ==
  /\ c.key \in DOMAIN memory_cache'.cache
  /\ memory_cache'.cache[c.key].value = c.value
  /\ c.key \in DOMAIN disk_cache'.rows
  /\ loads(disk_cache'.rows[c.key].value) = [ok |-> TRUE, value |-> c.value]
C15_WriteThrough ==
  [][/\ (last'.op = "set" /\ last'.tier = "facade") => C15_BothTiersHold(last')
     /\ (/\ last.op = "set" /\ last.tier = "facade"
         /\ C14_FacadeGet /\ last'.key = last.key
         /\ now - last.at <= MemTTL) =>
           /\ last'.ret = Some(last.value)
           /\ memory_cache'.hits = memory_cache.hits + 1
           /\ memory_cache'.misses = memory_cache.misses
           /\ disk_cache' = disk_cache]_vars

\* C15 witness: a facade get directly after the facade set of a non-empty
\* list returned it with no read of the persistent tier ever made.
C15_ServedFromMemory ==
  /\ last.op = "get" /\ last.tier = "facade" /\ last.prior # <<>>
  /\ last.prior[1] # <<>> /\ last.ret = Some(last.prior[1])
  /\ DiskReads = 0 /\ memory_cache.hits = 1
  /\ last.key \in DOMAIN disk_cache.rows

\* C16: in every state reached through facade calls and the passage of time,
\* every key with an unexpired entry in the persistent tier also has an entry
\* in the memory tier.
C16_NoOrphanedPersistentEntry ==
  client = "facade" =>
     \A k \in DOMAIN disk_cache.rows :
        (now - disk_cache.rows[k].timestamp <= DiskTTL) => k \in DOMAIN memory_cache.cache

\* C24: a persistent-tier get of a key whose stored payload does not
\* deserialize returns not-found, removes the row, adds one to misses and
\* leaves hits alone; every other row is unchanged, and a set of the same key
\* made afterwards is read back by a get.
C24_DiskGetOfDamagedRow ==
  /\ client \in {"disk", "damaged"} /\ DiskReads' = DiskReads + 1
  /\ last'.key \in DOMAIN disk_cache.rows
  /\ ~loads(disk_cache.rows[last'.key].value).ok
C24_SelfHealing ==
  [][C24_DiskGetOfDamagedRow =>
       LET k == last'.key
       IN /\ last'.ret = None
          /\ DOMAIN disk_cache'.rows = DOMAIN disk_cache.rows \ {k}
          /\ \A x \in DOMAIN disk_cache'.rows : disk_cache'.rows[x] = disk_cache.rows[x]
          /\ disk_cache'.misses = disk_cache.misses + 1
          /\ disk_cache'.hits = disk_cache.hits
          /\ \A v \in Values :
                DiskCache_get(DiskCache_set(disk_cache', k, v, "/r", NoSize, now'), k, now').ret
                  = Some(v)]_vars

\* C24 witness: a get directly after the damage of an unexpired row returned
\* not-found and removed the row, while the intact row of another key
\* stays stored.
C24_DamagedRowRemoved ==
  /\ last.op = "get" /\ last.tier = "disk" /\ last.damaged
  /\ last.ret = None
  /\ last.key \notin DOMAIN disk_cache.rows
  /\ disk_cache.misses = 1 /\ disk_cache.hits = 0
  /\ now <= DiskTTL
  /\ \E x \in DOMAIN disk_cache.rows : loads(disk_cache.rows[x].value).ok

\* one read counted: hits + 1 on a hit, misses + 1 otherwise
C30_Counted(c1, c2, hit) ==
  /\ c2.hits = c1.hits + (IF hit THEN 1 ELSE 0)
  /\ c2.misses = c1.misses + (IF hit THEN 0 ELSE 1)
C30_Uncounted(c1, c2) == c2.hits = c1.hits /\ c2.misses = c1.misses
C30_MemoryHit(k) ==
  k \in DOMAIN memory_cache.cache /\ now - memory_cache.cache[k].timestamp <= MemTTL
C30_DiskHit(k, intact) ==
  /\ k \in DOMAIN disk_cache.rows /\ now - disk_cache.rows[k].timestamp <= DiskTTL
  /\ intact => loads(disk_cache.rows[k].value).ok
\* every call step of the tiers and of the facade (the clock stands still in
\* a call step): a get counts one read in each tier it consults, a hit
\* exactly when the key is stored and unexpired (and, if intact is required,
\* its payload deserializes); the facade consults the persistent tier only
\* after a memory miss; set, delete and cleanup_expired count nothing
C30_Counters(intact) ==
  now' = now =>
     LET k == last'.key
     IN /\ (last'.op = "get" /\ last'.tier = "memory") =>
             /\ C30_Counted(memory_cache, memory_cache', C30_MemoryHit(k))
             /\ C30_Uncounted(disk_cache, disk_cache')
        /\ (last'.op = "get" /\ last'.tier = "disk") =>
             /\ C30_Counted(disk_cache, disk_cache', C30_DiskHit(k, intact))
             /\ C30_Uncounted(memory_cache, memory_cache')
        /\ (last'.op = "get" /\ last'.tier = "facade") =>
             /\ C30_Counted(memory_cache, memory_cache', C30_MemoryHit(k))
             /\ IF C30_MemoryHit(k) THEN C30_Uncounted(disk_cache, disk_cache')
                ELSE C30_Counted(disk_cache, disk_cache', C30_DiskHit(k, intact))
        /\ last'.op \in {"set", "delete", "cleanup"} =>
             /\ C30_Uncounted(memory_cache, memory_cache')
             /\ C30_Uncounted(disk_cache, disk_cache')

C34_AccessOrderMatchesEntries ==
  /\ SeqSet(memory_cache.access_order) = DOMAIN memory_cache.cache
  /\ Len(memory_cache.access_order) = Cardinality(DOMAIN memory_cache.cache)

\* C34 witness: a sweep of the bare memory tier removed one of two entries
\* and one key is left in the recency sequence.
C34_SweptOneOfTwo ==
  /\ last.op = "cleanup" /\ last.tier = "memory" /\ last.ret = Some(1)
  /\ Len(memory_cache.access_order) = 1

\* C35: a set of the bare memory tier on a key that is already stored replaces
\* the value and the timestamp of that key, moves it to the most recent end
\* of the recency sequence, and leaves every other entry stored and as it was.
C35_OverwriteIsLocal ==
  [][(now' = now /\ last'.op = "set" /\ last'.tier = "memory"
       /\ last'.key \in DOMAIN memory_cache.cache) =>
        LET k == last'.key
        IN /\ DOMAIN memory_cache'.cache = DOMAIN memory_cache.cache
           /\ \A j \in DOMAIN memory_cache.cache \ {k} :
                 memory_cache'.cache[j] = memory_cache.cache[j]
           /\ memory_cache'.cache[k] = [value |-> last'.value, timestamp |-> now]
           /\ memory_cache'.access_order[Len(memory_cache'.access_order)] = k]_vars

\* C36: a facade get never returns a value for a key whose most recent facade
\* set happened more than the TTL of the persistent tier before the get.
C36_FacadeStalenessBound ==
  (last.op = "get" /\ last.tier = "facade" /\ last.ret # None) =>
     /\ last.key \in DOMAIN set_at
     /\ last.at - set_at[last.key] <= DiskTTL

(***************************************************************************)
(* Properties of the CacheManager.                                         *)
(***************************************************************************)
\* the two queries name the same directory and agree on their non-null fields
SameQuery(q1, q2) == q1.dir = q2.dir /\ q1.fields = q2.fields

\* C19: two queries get the same key exactly when their paths denote the same
\* absolute path and their non-null filter fields agree, whatever the order of
\* the fields and whatever fields are null; so, with the cache enabled, a
\* get_file_list directly after a set_file_list returns the list set when the
\* queries agree in that sense (no later than the persistent TTL), and returns
\* not-found when they do not and nothing else is stored.
C19_KeyIgnoresSpelling ==
  /\ \A q1, q2 \in Queries :
        SameQuery(q1, q2) <=>
          make_cache_key(q1.path, q1.filters) = make_cache_key(q2.path, q2.filters)
  /\ (last.op = "get_file_list" /\ last.prior # <<>> /\ enabled) =>
        IF SameQuery(last.prior[3], last.key)
        THEN (last.at - last.prior[2] <= DiskTTL) => last.ret = Some(last.prior[1])
        ELSE (Cardinality(DOMAIN disk_cache.rows) <= 1) => last.ret = None

\* C19 witness: a list stored under one spelling of a query was returned to a
\* lookup that spells both the path and the filters differently.
C19_FoundUnderOtherSpelling ==
  /\ last.op = "get_file_list" /\ last.prior # <<>> /\ enabled
  /\ last.prior[3].path # last.key.path
  /\ last.prior[3].filters # last.key.filters
  /\ last.prior[1] # <<>>
  /\ last.ret = Some(last.prior[1])

\* C20: while the manager is disabled, get_file_list and get_directory_stats
\* return not-found, and these two and set_file_list and set_directory_stats
\* leave the stores as they are: the entries, the recency order and the
\* counters of both tiers, and the directory states.
C20_GetSetCalls ==
  {"get_file_list", "set_file_list", "get_directory_stats", "set_directory_stats"}
C20_DisabledCallsBypassStores ==
  [][(~enabled /\ last'.op \in C20_GetSetCalls) =>
       /\ memory_cache' = memory_cache
       /\ disk_cache' = disk_cache
       /\ accessed' = accessed
       /\ fs_cache' = fs_cache
       /\ last'.op \in {"get_file_list", "get_directory_stats"} => last'.ret = None]_vars

\* C20 witness: the manager is disabled and a get_file_list has returned
\* not-found for a query whose list is stored, unexpired, in both tiers, while
\* a directory state is stored too.
C20_BypassedHit ==
  /\ ~enabled /\ last.op = "get_file_list" /\ last.ret = None
  /\ LET k == make_cache_key(last.key.path, last.key.filters)
     IN /\ k \in DOMAIN memory_cache.cache
        /\ now - memory_cache.cache[k].timestamp <= MemTTL
        /\ k \in DOMAIN disk_cache.rows
  /\ fs_cache # EmptyMap

\* C21: a file list stored with set_file_list while the manager was enabled,
\* and not cleared since, is returned by a get_file_list of the same query
\* made after a disable() and a later enable(), whatever get and set calls were
\* made while disabled, when the get is no later than the persistent TTL after
\* the set.
C21_DisablingIsReversible ==
  (/\ last.op = "get_file_list" /\ enabled
   /\ held.entry # None /\ held.phase = "reenabled"
   /\ SameQuery(held.entry[1].query, last.key)
   /\ last.at - held.entry[1].at <= DiskTTL) =>
     last.ret = Some(held.entry[1].file_list)

\* C21 witness: a non-empty list was returned after a disable() and an
\* enable(), with get or set calls made while disabled, at a time when the
\* memory entry had expired.
C21_ReturnedAfterReenable ==
  /\ last.op = "get_file_list" /\ enabled
  /\ held.entry # None /\ held.phase = "reenabled" /\ held.bypassed
  /\ held.entry[1].file_list # <<>>
  /\ last.at - held.entry[1].at > MemTTL
  /\ last.ret = Some(held.entry[1].file_list)

\* C22: clear_all leaves the memory tier and the persistent tier empty and
\* the directory states as they were; while both tiers are empty every call
\* but a set_file_list leaves them empty and a get_file_list returns
\* not-found; and a get_directory_stats directly after clear_all still returns
\* the state stored for an existing directory whose modification time has not
\* advanced past the recorded one.
C22_TiersEmpty(m, d) == DOMAIN m.cache = {} /\ m.access_order = <<>> /\ DOMAIN d.rows = {}
C22_ClearAllKeepsDirectoryStates ==
  [][/\ last'.op = "clear_all" =>
          /\ C22_TiersEmpty(memory_cache', disk_cache')
          /\ fs_cache' = fs_cache
     /\ (C22_TiersEmpty(memory_cache, disk_cache) /\ last'.op # "set_file_list") =>
          /\ C22_TiersEmpty(memory_cache', disk_cache')
          /\ last'.op = "get_file_list" => last'.ret = None
     /\ (/\ last.op = "clear_all" /\ last'.op = "get_directory_stats" /\ enabled
         /\ DirExists(last'.key) /\ abspath(last'.key) \in DOMAIN fs_cache
         /\ dir_mtime <= fs_cache[abspath(last'.key)].mtime) =>
          last'.ret = Some(fs_cache[abspath(last'.key)])]_vars

\* C22 witness: clear_all directly after a set_file_list that stored a list
\* has left both tiers empty, while the state of /r is stored and still
\* valid.
C22_ClearedWithDirectoryState ==
  /\ last.op = "clear_all" /\ last.prior # <<>> /\ enabled
  /\ C22_TiersEmpty(memory_cache, disk_cache)
  /\ CacheManager_get_directory_stats(enabled, fs_cache, <<"/", "r">>, dir_mtime) # None

\* C23: after cleanup() no entry of the memory tier or of the persistent tier
\* is older than its tier's TTL, every entry that was not older than the TTL
\* is still stored unchanged, each per-tier count is the number of entries
\* that left that tier, and total_cleaned is the sum of the three counts.
C23_CleanupStep ==
  /\ last'.op = "cleanup" /\ last'.tier = "manager"
  /\ (last.op # "cleanup" \/ last'.at # last.at \/ last'.ret # last.ret)
C23_CleanupSweepsEveryTier ==
  [][C23_CleanupStep =>
       LET ret == last'.ret[1]
           mem == memory_cache.cache
           rows == disk_cache.rows
       IN /\ \A k \in DOMAIN memory_cache'.cache :
                now - memory_cache'.cache[k].timestamp <= MemTTL
          /\ \A k \in DOMAIN disk_cache'.rows :
                now - disk_cache'.rows[k].timestamp <= DiskTTL
          /\ \A k \in DOMAIN mem :
                now - mem[k].timestamp <= MemTTL =>
                  k \in DOMAIN memory_cache'.cache /\ memory_cache'.cache[k] = mem[k]
          /\ \A k \in DOMAIN rows :
                now - rows[k].timestamp <= DiskTTL =>
                  k \in DOMAIN disk_cache'.rows /\ disk_cache'.rows[k] = rows[k]
          /\ ret.memory_cleaned = Cardinality(DOMAIN mem \ DOMAIN memory_cache'.cache)
          /\ ret.disk_cleaned = Cardinality(DOMAIN rows \ DOMAIN disk_cache'.rows)
          /\ ret.fs_cleaned = Cardinality(DOMAIN fs_cache \ DOMAIN fs_cache')
          /\ ret.total_cleaned = ret.memory_cleaned + ret.disk_cleaned + ret.fs_cleaned]_vars

\* C23 witness: a cleanup() removed an expired memory entry and an old
\* directory state and kept the persistent row of the same key, which was
\* older than the memory TTL but not older than the persistent TTL.
C23_SweptMemoryKeptRow ==
  /\ last.op = "cleanup" /\ last.tier = "manager"
  /\ last.ret[1].memory_cleaned = 1 /\ last.ret[1].disk_cleaned = 0
  /\ last.ret[1].fs_cleaned = 1 /\ last.ret[1].total_cleaned = 2
  /\ DOMAIN memory_cache.cache = {}
  /\ \E k \in DOMAIN disk_cache.rows : now - disk_cache.rows[k].timestamp > MemTTL

\* C25: with the manager enabled, a directory-state lookup that directly
\* follows the store of a state for the same existing directory returns that
\* state while the directory's modification time is the one it had at the
\* store, and returns not-found once it is later; every lookup returns
\* not-found when nothing is stored for the directory, when the directory
\* does not exist, or when its modification time is later than the recorded
\* one.
C25_Lookup ==
  /\ last'.op = "get_directory_stats" /\ enabled
  /\ (last.op # "get_directory_stats" \/ last' # last)
C25_DirectoryStateValidity ==
  [][C25_Lookup =>
       LET path == last'.key
           stored == abspath(path) \in DOMAIN fs_cache
       IN /\ (last.op = "set_directory_stats" /\ last.key = path /\ DirExists(path)) =>
               IF dir_mtime <= last.prior[1]
               THEN /\ last'.ret # None
                    /\ last'.ret[1].stats = last.value[1]
                    /\ last'.ret[1].mtime = last.prior[1]
               ELSE last'.ret = None
          /\ ~stored => last'.ret = None
          /\ ~DirExists(path) => last'.ret = None
          /\ (stored /\ dir_mtime > fs_cache[abspath(path)].mtime) => last'.ret = None]_vars

\* C25 witness: a lookup of /r returned not-found although a state is stored
\* for it, because the directory was modified after the state was recorded.
C25_InvalidatedByModification ==
  /\ last.op = "get_directory_stats" /\ enabled /\ last.ret = None
  /\ DirExists(last.key) /\ abspath(last.key) \in DOMAIN fs_cache
  /\ dir_mtime > fs_cache[abspath(last.key)].mtime

(***************************************************************************)
(* Properties of the cache-enabled scanner.                                *)
(***************************************************************************)
\* the filters dict of a request, as a caller of the manager passes it
FiltersOf(req) ==
  << Item("name_filter", IF req.name_filter = NoStr THEN None ELSE Some(req.name_filter)),
     Item("ext_filter", IF req.ext_filter = NoStr THEN None ELSE Some(req.ext_filter)) >>

\* C17: after a cache-enabled scan of a directory has returned, the
\* CacheManager's get_file_list for the same root and filters returns the
\* list the scan returned.
C17_ScanWritesThroughManager ==
  (pc = "done" /\ call # NoCall /\ is_dir(fs, call.root_path)) =>
     CacheManager_get_file_list(enabled, memory_cache, disk_cache,
                                PathStr(fs, call.root_path), FiltersOf(call.request),
                                now).ret = returned

\* C18: when a scan call on a FastScanner repeats the call before it (same
\* directory as root, same filter arguments passed the same way) less than
\* the cache TTL later, and the call before it returned a list, then the
\* later call returns an equal list without listing any directory.
C18_WarmScanServedFromCache ==
  (/\ pc = "done" /\ prev # <<>>
   /\ is_dir(fs, call.root_path)
   /\ prev[Len(prev)].pc = "done"
   /\ prev[Len(prev)].root_path = call.root_path
   /\ prev[Len(prev)].request = call.request
   /\ prev[Len(prev)].kw = call.kw
   /\ call.at - prev[Len(prev)].at < FastTTL) =>
     /\ returned = prev[Len(prev)].returned
     /\ ~listed

\* C26: after every scan that walked and returned, the second and later ones
\* on the same scanner included, files_found is the number of returned paths,
\* total_bytes is the sum of the sizes of the returned files, and
\* files_skipped and dirs_scanned count the files skipped and the directories
\* met by that scan alone.
C26_StatsArePerScan ==
  (pc = "done" /\ listed) =>
     /\ stats.files_found = Len(returned[1])
     /\ stats.total_bytes = SumSizes(SeqSet(returned[1]))
     /\ stats.files_skipped =
          Cardinality({n \in Nodes : fs[n].kind = "file" /\ Encountered(n) /\ Ignored(n)})
     /\ stats.dirs_scanned =
          Cardinality({n \in Nodes : fs[n].kind = "dir" /\ Encountered(n)})

\* the scan that stored the list a cache-served call returned: the latest
\* earlier call with the same cache key that walked and returned
C37_Producers ==
  {i \in DOMAIN prev : /\ prev[i].cache_key = call.cache_key
                       /\ ~prev[i].hit /\ prev[i].pc = "done"}
C37_Producer == CHOOSE i \in C37_Producers : \A j \in C37_Producers : j <= i

\* C37: a scan call that is served from _file_cache has the root path and the
\* filter arguments (passed positionally or by keyword) of the scan that
\* produced the list it returns.
C37_KeyedByWholeRequest ==
  (pc = "done" /\ call.hit) =>
     /\ C37_Producers # {}
     /\ prev[C37_Producer].root_path = call.root_path
     /\ prev[C37_Producer].request = call.request

\* C39: after every scan call that returned, from_cache is set exactly when
\* that call was served from _file_cache.
C39_FromCacheReflectsLatestScan ==
  (pc = "done" /\ call # NoCall) => (from_cache <=> call.hit)

\* C38: whenever a scan call on a scanner has returned, no generator of the
\* scanner holds a permit: the pool is at its capacity max_concurrent.
C38_PermitsConserved ==
  pc = "done" => semaphore = max_concurrent

\* C33: every construction of CacheManager after the first returns the one
\* existing object and runs no initialization: the object it returns, the
\* enabled flag, both tiers and the directory states are what they were
\* before the construction.
C33_SingleInstance ==
  [][(last'.op = "CacheManager" /\ now' = now /\ dir_mtime' = dir_mtime) =>
        /\ instance' = instance
        /\ enabled' = enabled
        /\ memory_cache' = memory_cache
        /\ disk_cache' = disk_cache
        /\ fs_cache' = fs_cache]_vars

\* C33 witness: a construction made while the manager is disabled and its
\* tiers hold a file list that was read once.
C33_ConstructedWhileDisabled ==
  /\ last.op = "CacheManager"
  /\ ~enabled
  /\ DOMAIN memory_cache.cache # {} /\ DOMAIN disk_cache.rows # {}
  /\ memory_cache.hits = 1

\* C31: a facade set during which the store rejects the persistent write
\* returns and leaves the rows of the persistent tier as they were.
C31_RejectedWriteAbsorbed ==
  [][(now' = now /\ last'.op = "set_rejected") =>
        disk_cache'.rows = disk_cache.rows]_vars

\* a call step of the persistent tier on a closed connection
C32_AfterClose(op) ==
  now' = now /\ last'.op = op /\ last'.tier = "disk" /\ ~disk_cache.open

\* C32: the close of an open tier removes exactly the rows that are expired
\* at the time of the call and then releases the connection, so no expired
\* row is left in the store at shutdown; a repeated close changes nothing;
\* after a close a get is counted as a miss and reports not-found, and a set
\* changes nothing.
C32_ShutdownOrdering ==
  [][/\ C32_AfterClose("close") => disk_cache' = disk_cache
     /\ (now' = now /\ last'.op = "close" /\ disk_cache.open) =>
          /\ ~disk_cache'.open
          /\ \A k \in DOMAIN disk_cache'.rows :
                ~Expired(disk_cache'.rows[k].timestamp, now, DiskTTL)
          /\ \A k \in DOMAIN disk_cache.rows :
                ~Expired(disk_cache.rows[k].timestamp, now, DiskTTL) =>
                   /\ k \in DOMAIN disk_cache'.rows
                   /\ disk_cache'.rows[k] = disk_cache.rows[k]
     /\ C32_AfterClose("get") =>
          /\ last'.ret = None
          /\ disk_cache' = [disk_cache EXCEPT !.misses = @ + 1]
     /\ C32_AfterClose("set") => disk_cache' = disk_cache]_vars

\* C32 witness: a tier holding an expired and an unexpired row was closed, the
\* unexpired row is left, and a get of it after the close reported not-found.
C32_ReadAfterShutdown ==
  /\ last.op = "get" /\ last.tier = "disk" /\ last.ret = None
  /\ ~disk_cache.open
  /\ last.key \in DOMAIN disk_cache.rows
  /\ ~Expired(disk_cache.rows[last.key].timestamp, now, DiskTTL)
  /\ Cardinality(DOMAIN disk_cache.rows) = 1
  /\ now > DiskTTL

====
